---- MODULE Spec2Model ----
(***************************************************************************)
(* A model of the ingestion-and-provenance pipeline of                     *)
(* airnub_prefect_starter: core/file_handlers.py (download, hash, CAS      *)
(* placement, manifest) with the helpers of common/utils.py, and the       *)
(* functions of core/web_utils.py (link extraction), core/api_handlers.py  *)
(* (JSON fetch) and core/artifact_creators.py (page manifests), each under *)
(* a specification of its own: SpecParse, SpecFetch, SpecPage.             *)
(*                                                                         *)
(* Strings are sequences of one-character strings, a path is the sequence  *)
(* of its components, str(path) joins the components with "/".             *)
(* A file is the sequence of the units written to it: a document file is   *)
(* the sequence of the chunks of the response body, a manifest file is the *)
(* sequence of the <<key, value>> members of the serialized JSON object.   *)
(***************************************************************************)
EXTENDS Integers, Sequences, FiniteSets, TLC

(***************************************************************************)
(* Bounds of the model.                                                    *)
(***************************************************************************)
\* the longest response body, in chunks
MaxBody == 2

(***************************************************************************)
(* Character classes of the regular expressions of sanitize_filename.      *)
(***************************************************************************)
Letters ==
    {"a", "b", "c", "d", "e", "f", "g", "h", "i", "j", "k", "l", "m", "n", "o",
     "p", "q", "r", "s", "t", "u", "v", "w", "x", "y", "z"}

Digits == {"0", "1", "2", "3", "4", "5", "6", "7", "8", "9"}

\* \w of the pattern [^\w.\-_]
WordChars == Letters \cup Digits \cup {"_"}

\* the class [\s\-/\\&:,|]
SepChars == {" ", "-", "/", "\\", "&", ":", ",", "|"}

\* the argument of str.strip('._- ')
StripChars == {".", "_", "-", " "}

(***************************************************************************)
(* String literals of the source.                                          *)
(***************************************************************************)
DownloadedFile ==
    <<"d", "o", "w", "n", "l", "o", "a", "d", "e", "d", "_", "f", "i", "l", "e">>

UnknownDownload ==
    <<"u", "n", "k", "n", "o", "w", "n", "_", "d", "o", "w", "n", "l", "o", "a", "d">>

ManifestSuffix ==
    <<".", "m", "a", "n", "i", "f", "e", "s", "t", ".", "j", "s", "o", "n">>

Placeholder ==
    <<"p", "l", "a", "c", "e", "h", "o", "l", "d", "e", "r">>

(***************************************************************************)
(* common/utils.py: sanitize_filename.                                     *)
(***************************************************************************)
RECURSIVE SplitOn(_, _, _)
\* the components of s between the separators c; cur is the open component
SplitOn(s, c, cur) ==
    IF s = <<>> THEN <<cur>>
    ELSE IF Head(s) = c THEN <<cur>> \o SplitOn(Tail(s), c, <<>>)
    ELSE SplitOn(Tail(s), c, Append(cur, Head(s)))

\* the parts of a PurePosixPath: empty and "." components are dropped
PathParts(s) ==
    SelectSeq(SplitOn(s, "/", <<>>), LAMBDA part : part # <<>> /\ part # <<".">>)

\* Path(filename).name
PathName(s) ==
    LET parts == PathParts(s)
    IN  IF parts = <<>> THEN <<>> ELSE parts[Len(parts)]

RECURSIVE SubRuns(_, _, _)
\* re.sub('[class]+', rep, s): every maximal run of class characters becomes rep
SubRuns(s, class, rep) ==
    IF s = <<>> THEN <<>>
    ELSE IF Head(s) \in class
         THEN IF Len(s) > 1 /\ s[2] \in class
              THEN SubRuns(Tail(s), class, rep)
              ELSE rep \o SubRuns(Tail(s), class, rep)
         ELSE <<Head(s)>> \o SubRuns(Tail(s), class, rep)

RECURSIVE LStrip(_, _)
LStrip(s, class) ==
    IF s # <<>> /\ Head(s) \in class THEN LStrip(Tail(s), class) ELSE s

RECURSIVE RStrip(_, _)
RStrip(s, class) ==
    IF s # <<>> /\ s[Len(s)] \in class
    THEN RStrip(SubSeq(s, 1, Len(s) - 1), class)
    ELSE s

Strip(s, class) == RStrip(LStrip(s, class), class)

\* sanitize_filename without the strip of line 65
sanitize_filename_untrimmed(filename, default_name) ==
    IF filename = <<>> THEN default_name
    ELSE LET name == PathName(filename)
             s1 == SubRuns(name, SepChars, <<"_">>)
             s2 == SelectSeq(s1, LAMBDA c : c \in WordChars \cup {".", "-", "_"})
             s3 == SubRuns(s2, {"_"}, <<"_">>)
             s4 == SubRuns(s3, {"-"}, <<"-">>)
         IN  IF s4 # <<>> THEN s4 ELSE default_name

sanitize_filename_default(filename, default_name) ==
    IF filename = <<>> THEN default_name
    ELSE LET name == PathName(filename)
             s1 == SubRuns(name, SepChars, <<"_">>)
             s2 == SelectSeq(s1, LAMBDA c : c \in WordChars \cup {".", "-", "_"})
             s3 == SubRuns(s2, {"_"}, <<"_">>)
             s4 == SubRuns(s3, {"-"}, <<"-">>)
             s5 == Strip(s4, StripChars)
         IN  IF s5 # <<>> THEN s5 ELSE default_name

sanitize_filename(filename) == sanitize_filename_default(filename, DownloadedFile)

(***************************************************************************)
(* common/utils.py: the SHA-256 helpers.  The digest is idealised as a     *)
(* collision-free running state over the units hashed so far, rendered as  *)
(* a fixed-width string of lowercase hexadecimal digits.                   *)
(***************************************************************************)
HexDigits ==
    <<"0", "1", "2", "3", "4", "5", "6", "7", "8", "9", "a", "b", "c", "d", "e", "f">>

\* hashlib.sha256(): the initial state
sha256_new == 0

\* sha256_hash.update(block): the units of block are absorbed in order
RECURSIVE sha256_update(_, _)
sha256_update(h, block) ==
    IF block = <<>> THEN h
    ELSE sha256_update((h * 3 + Head(block) + 1) % 256, Tail(block))

\* sha256_hash.hexdigest()
hexdigest(h) == <<HexDigits[(h \div 16) + 1], HexDigits[(h % 16) + 1]>>

generate_sha256_hash_from_bytes(content) ==
    hexdigest(sha256_update(sha256_new, content))

(***************************************************************************)
(* pathlib: path / name and str(path).                                     *)
(***************************************************************************)
PathJoin(path, name) == Append(path, name)

RECURSIVE PathStr(_)
PathStr(path) ==
    IF path = <<>> THEN <<>>
    ELSE IF Len(path) = 1 THEN path[1]
    ELSE path[1] \o <<"/">> \o PathStr(Tail(path))

(***************************************************************************)
(* File contents.                                                          *)
(***************************************************************************)
\* what a hole of a sparse file reads as
Nul == 0 - 1

\* a write of data at offset off into a file holding old
WriteAt(old, off, data) ==
    LET end == off + Len(data)
        n == IF Len(old) > end THEN Len(old) ELSE end
    IN  [i \in 1..n |->
            IF i > off /\ i <= end THEN data[i - off]
            ELSE IF i <= Len(old) THEN old[i]
            ELSE Nul]

\* dict.update and d[k] = v: the entries of new replace those of old
Update(old, new) == new @@ old

(***************************************************************************)
(* The invocations and their inputs.                                       *)
(***************************************************************************)
Procs == {"p1", "p2"}

\* local_cas_target_base_dir
CasRoot == << <<"r">> >>

\* data_source_name
DataSourceNames == { <<>>, <<"d", " ", "x">> }

\* urlparse(url).path
UrlPaths == { <<"/", "a", "-", "b">> }

\* the response headers as the server sends them
ResponseHeaders ==
    { <<>>,
      << <<"Content-Disposition", <<"f", "i", "l", "e", "n", "a", "m", "e", "=", "g">>>> >> }

\* the response bodies, as sequences of chunks
Bodies == { [i \in 1..n |-> (i + 1) % 2] : n \in 0..MaxBody }

Requests ==
    [url_path : UrlPaths, data_source_name : DataSourceNames,
     headers : ResponseHeaders, body : Bodies]

VARIABLES
    sameFs,        \* the temporary directory and the CAS root are on one filesystem
    clock,         \* datetime.utcnow()
    req,           \* the arguments of each invocation and the response it is served
    pc,            \* the position of each invocation
    loc,           \* the local variables of each invocation
    meta,          \* processing_metadata of each invocation
    tmp,           \* the temporary file of each invocation
    casDirs,       \* the directories under the CAS root
    casDocs,       \* the document files under the CAS root
    casManifests,  \* the manifest files under the CAS root
    fault,         \* the exception each invocation met, if any
    steps,         \* the steps each invocation has taken, in order
    preds,         \* the invocations that had ended when each one started
    wrote,         \* the invocations that wrote a manifest, in order of the write
    call           \* the call of a function outside the download pipeline, and its outcome

vars ==
    <<sameFs, clock, req, pc, loc, meta, tmp, casDirs, casDocs, casManifests,
      fault, steps, preds, wrote, call>>

NoFile == [exists |-> FALSE, data |-> <<>>]

Ended == {"done", "cancelled", "raised"}

Init ==
    /\ sameFs \in BOOLEAN
    /\ clock = 0
    /\ req \in [Procs -> Requests]
    /\ pc = [p \in Procs |-> "idle"]
    /\ loc = [p \in Procs |-> <<>>]
    /\ meta = [p \in Procs |-> <<>>]
    /\ tmp = [p \in Procs |-> NoFile]
    /\ casDirs = {}
    /\ casDocs = <<>>
    /\ casManifests = <<>>
    /\ fault = [p \in Procs |-> "none"]
    /\ steps = [p \in Procs |-> <<>>]
    /\ preds = [p \in Procs |-> {}]
    /\ wrote = <<>>
    /\ call = <<>>

UnchangedCas == UNCHANGED <<casDirs, casDocs, casManifests, wrote>>

\* the end of the invocation by an exception of kind f
Raise(p, f) == fault' = [fault EXCEPT ![p] = f]

(***************************************************************************)
(* core_process_scheduled_file_download: entry.                            *)
(***************************************************************************)
Start(p) ==
    /\ pc[p] = "idle"
    /\ meta' = [meta EXCEPT ![p] =
                  [status |-> "INITIATED",
                   url |-> req[p].url_path,
                   data_source_name |-> req[p].data_source_name,
                   download_timestamp_utc |-> clock]]
    /\ clock' = clock + 1
    /\ preds' = [preds EXCEPT ![p] = {q \in Procs : pc[q] \in Ended}]
    /\ pc' = [pc EXCEPT ![p] = "download"]
    /\ UNCHANGED <<call, sameFs, req, loc, tmp, fault, steps>>
    /\ UnchangedCas

(***************************************************************************)
(* _download_to_temporary_file.                                            *)
(***************************************************************************)
\* the keys of dict(response.headers) are the lowercased header names
LowerKey(k) ==
    CASE k = "Content-Disposition" -> "content-disposition"
      [] k = "Content-Type" -> "content-type"
      [] OTHER -> k

\* dict(response.headers)
HeadersDict(hs) == [i \in 1..Len(hs) |-> <<LowerKey(hs[i][1]), hs[i][2]>>]

HasKey(d, k) == \E i \in 1..Len(d) : d[i][1] = k

\* d.get(k) of a dictionary that has the key k
DictGet(d, k) == d[CHOOSE i \in 1..Len(d) : d[i][1] = k][2]

FilenameEq == <<"f", "i", "l", "e", "n", "a", "m", "e", "=">>

\* the first index at which pat occurs in s, 0 when it does not
Find(s, pat) ==
    LET at == {i \in 1..(Len(s) - Len(pat) + 1) : SubSeq(s, i, i + Len(pat) - 1) = pat}
    IN  IF at = {} THEN 0 ELSE CHOOSE i \in at : \A j \in at : i <= j

RECURSIVE TakeUnquoted(_)
\* the longest prefix of s without a double quote
TakeUnquoted(s) ==
    IF s = <<>> \/ Head(s) = "\"" THEN <<>> ELSE <<Head(s)>> \o TakeUnquoted(Tail(s))

\* group 1 of re.search('filename="?([^"]+)"?', value), <<>> when there is no match
DispositionFilename(value) ==
    LET at == Find(value, FilenameEq)
        rest == SubSeq(value, at + Len(FilenameEq), Len(value))
        body == IF rest # <<>> /\ Head(rest) = "\"" THEN Tail(rest) ELSE rest
    IN  IF at = 0 THEN <<>> ELSE TakeUnquoted(body)

\* lines 30-41: the name the download is stored under
SafeOriginalFilename(url_path, headers) ==
    LET raw_filename_from_url == PathName(url_path)
        from_header ==
            IF HasKey(headers, "Content-Disposition")
               /\ DictGet(headers, "Content-Disposition") # <<>>
            THEN DispositionFilename(DictGet(headers, "Content-Disposition"))
            ELSE <<>>
        original_filename ==
            IF from_header # <<>> THEN from_header ELSE raw_filename_from_url
    IN  sanitize_filename(IF original_filename # <<>> THEN original_filename
                          ELSE UnknownDownload)

\* lines 135-138: the download returned None
FailedDownload(m) ==
    Update(m, [status |-> "FAILED_DOWNLOAD",
               error_message |-> "Download operation failed."])

\* the request fails before the temporary file exists: a connection error, or
\* raise_for_status on a status that is not 2xx
DownloadRefused(p) ==
    /\ pc[p] = "download"
    /\ Raise(p, "request")
    /\ meta' = [meta EXCEPT ![p] = FailedDownload(@)]
    /\ pc' = [pc EXCEPT ![p] = "done"]
    /\ UNCHANGED <<call, sameFs, clock, req, loc, tmp, steps, preds>>
    /\ UnchangedCas

\* lines 28-46: the response arrives and the temporary file is created
DownloadOpen(p) ==
    /\ pc[p] = "download"
    /\ LET headers == HeadersDict(req[p].headers)
       IN  loc' = [loc EXCEPT ![p] =
                     [headers |-> headers,
                      original_filename |-> SafeOriginalFilename(req[p].url_path, headers),
                      file_size |-> 0]]
    /\ tmp' = [tmp EXCEPT ![p] = [exists |-> TRUE, data |-> <<>>]]
    /\ pc' = [pc EXCEPT ![p] = "stream"]
    /\ UNCHANGED <<call, sameFs, clock, req, meta, fault, steps, preds>>
    /\ UnchangedCas

\* lines 47-49: one chunk of the body is written to the temporary file
DownloadChunk(p) ==
    /\ pc[p] = "stream"
    /\ loc[p].file_size < Len(req[p].body)
    /\ LET chunk == req[p].body[loc[p].file_size + 1]
       IN  /\ tmp' = [tmp EXCEPT ![p].data = Append(@, chunk)]
           /\ loc' = [loc EXCEPT ![p].file_size = @ + 1]
    /\ UNCHANGED <<call, sameFs, clock, req, pc, meta, fault, steps, preds>>
    /\ UnchangedCas

\* lines 44-59: the stream breaks (httpx.RequestError) or a write fails: the
\* with block closes the temporary file, which delete=False keeps, and the
\* handlers of lines 53-58 make the function return None
DownloadBroken(p) ==
    /\ pc[p] = "stream"
    /\ Raise(p, "stream")
    /\ meta' = [meta EXCEPT ![p] = FailedDownload(@)]
    /\ pc' = [pc EXCEPT ![p] = "done"]
    /\ UNCHANGED <<call, sameFs, clock, req, loc, tmp, steps, preds>>
    /\ UnchangedCas

\* the caller cancels the invocation at an await of the download:
\* asyncio.CancelledError is no Exception, so no handler of lines 53-58
\* catches it and it leaves core_process_scheduled_file_download
DownloadCancelled(p) ==
    /\ pc[p] \in {"download", "stream"}
    /\ Raise(p, "cancelled")
    /\ pc' = [pc EXCEPT ![p] = "cancelled"]
    /\ UNCHANGED <<call, sameFs, clock, req, loc, meta, tmp, steps, preds>>
    /\ UnchangedCas

\* lines 51-52 and 140-146: the body is complete and the download returns
DownloadDone(p) ==
    /\ pc[p] = "stream"
    /\ loc[p].file_size = Len(req[p].body)
    /\ meta' = [meta EXCEPT ![p] =
                  Update(@, [original_filename |-> loc[p].original_filename,
                             http_headers |-> loc[p].headers,
                             file_size_bytes |-> loc[p].file_size,
                             content_type |->
                                 IF HasKey(loc[p].headers, "content-type")
                                 THEN <<DictGet(loc[p].headers, "content-type")>>
                                 ELSE <<>>])]
    /\ steps' = [steps EXCEPT ![p] = Append(@, "download")]
    /\ pc' = [pc EXCEPT ![p] = "hash"]
    /\ UNCHANGED <<call, sameFs, clock, req, loc, tmp, fault, preds>>
    /\ UnchangedCas

(***************************************************************************)
(* common/utils.py: generate_sha256_for_file.                              *)
(***************************************************************************)
\* None
None == <<>>

\* a variant of HashBlocks that reads one block and no more
HashFirstBlock(h, rest) ==
    IF rest = <<>> THEN h ELSE sha256_update(h, <<Head(rest)>>)

RECURSIVE HashBlocks(_, _)
\* lines 35-36: the file is read block by block, each block updates the hash
HashBlocks(h, rest) ==
    IF rest = <<>> THEN h
    ELSE HashBlocks(sha256_update(h, <<Head(rest)>>), Tail(rest))

\* the digest of the file, None when the path is no file or a read fails
generate_sha256_for_file(file, read_ok) ==
    IF ~file.exists \/ ~read_ok THEN None
    ELSE hexdigest(HashBlocks(sha256_new, file.data))

(***************************************************************************)
(* core/manifest_models.py: DemoFileManifestEntry.                         *)
(***************************************************************************)
\* lines 158-168: the manifest entry as core_process_scheduled_file_download
\* builds it
DemoFileManifestEntry(m, content_hash) ==
    [data_source_name |-> m.data_source_name,
     original_filename |-> m.original_filename,
     source_url |-> m.url,
     download_timestamp_utc |-> m.download_timestamp_utc,
     content_hash_sha256 |-> content_hash,
     hash_algorithm |-> "sha256",
     worker_storage_path |-> Placeholder,
     storage_type |-> "local_cas_demo",
     file_size_bytes |-> m.file_size_bytes,
     http_headers |-> m.http_headers,
     content_type |-> m.content_type,
     manifest_schema_version |-> "1.0.0"]

\* model_dump_json: the members of the JSON object, in the order of the fields
model_dump_json(e) ==
    << <<"data_source_name", e.data_source_name>>,
       <<"original_filename", e.original_filename>>,
       <<"source_url", e.source_url>>,
       <<"source_page_url", None>>,
       <<"link_title", None>>,
       <<"content_hash_sha256", e.content_hash_sha256>>,
       <<"hash_algorithm", e.hash_algorithm>>,
       <<"worker_storage_path", e.worker_storage_path>>,
       <<"storage_type", e.storage_type>>,
       <<"download_timestamp_utc", e.download_timestamp_utc>>,
       <<"file_size_bytes", e.file_size_bytes>>,
       <<"content_type", e.content_type>>,
       <<"http_headers", Len(e.http_headers)>> >>
    \o e.http_headers
    \o << <<"manifest_schema_version", e.manifest_schema_version>> >>

(***************************************************************************)
(* core_process_scheduled_file_download: hashing (lines 148-168).          *)
(***************************************************************************)
\* a variant of FailedHashing whose result carries a storage path
FailedHashingWithPath(m) ==
    Update(m, [status |-> "FAILED_HASHING",
               error_message |-> "Could not generate hash for the downloaded file.",
               worker_storage_path |-> Placeholder])

\* lines 149-153
FailedHashing(m) ==
    Update(m, [status |-> "FAILED_HASHING",
               error_message |-> "Could not generate hash for the downloaded file."])

\* line 152 and lines 108-110: the temporary file is unlinked if it exists
Unlinked(file) == NoFile

\* the downloaded file is hashed; without a hash the invocation returns
\* FAILED_HASHING, with one the manifest entry is built, which raises a
\* ValidationError when the URL is no HttpUrl
HashFile(p) ==
    /\ pc[p] = "hash"
    /\ \E read_ok \in BOOLEAN, url_ok \in BOOLEAN :
         LET content_hash == generate_sha256_for_file(tmp[p], read_ok)
         IN  IF content_hash = None
             THEN /\ url_ok
                  /\ Raise(p, "hash")
                  /\ meta' = [meta EXCEPT ![p] = FailedHashing(@)]
                  /\ tmp' = [tmp EXCEPT ![p] = Unlinked(@)]
                  /\ pc' = [pc EXCEPT ![p] = "done"]
                  /\ UNCHANGED <<loc, steps>>
             ELSE /\ meta' = [meta EXCEPT ![p] =
                                Update(@, [content_hash_sha256 |-> content_hash,
                                           hash_algorithm |-> "sha256"])]
                  /\ steps' = [steps EXCEPT ![p] = Append(@, "hash")]
                  /\ IF url_ok
                     THEN /\ loc' = [loc EXCEPT ![p] =
                                   Update(@, [content_hash |-> content_hash,
                                              manifest_entry |->
                                                  DemoFileManifestEntry(meta'[p], content_hash)])]
                          /\ pc' = [pc EXCEPT ![p] = "store"]
                          /\ UNCHANGED fault
                     ELSE /\ Raise(p, "validation")
                          /\ pc' = [pc EXCEPT ![p] = "raised"]
                          /\ UNCHANGED loc
                  /\ UNCHANGED tmp
    /\ UNCHANGED <<call, sameFs, clock, req, preds>>
    /\ UnchangedCas

(***************************************************************************)
(* _store_file_and_its_manifest_locally.                                   *)
(***************************************************************************)
\* a variant of CasContentDir that uses the data source name as it is given
CasContentDirUnsanitized(base_dir, data_source_name, file_content_hash) ==
    PathJoin(PathJoin(base_dir, data_source_name), file_content_hash)

\* line 87
CasContentDir(base_dir, data_source_name, file_content_hash) ==
    PathJoin(PathJoin(base_dir, sanitize_filename(data_source_name)), file_content_hash)

\* line 90
FinalDocPath(cas_content_dir, filename) == PathJoin(cas_content_dir, filename)

\* lines 97-98
FinalManifestPath(cas_content_dir, filename) ==
    PathJoin(cas_content_dir, filename \o ManifestSuffix)

\* the directory and its parents
WithParents(dir) == {SubSeq(dir, 1, k) : k \in 1..Len(dir)}

\* Path.mkdir(parents=True, exist_ok=...) raises FileExistsError
MkdirExists(dirs, dir, exist_ok) == dir \in dirs /\ ~exist_ok

\* a variant of MkdirRaises for mkdir without exist_ok
MkdirRaisesWithoutExistOk(dirs, dir) == MkdirExists(dirs, dir, FALSE)

\* line 88: whether mkdir raises on a directory that exists
MkdirRaises(dirs, dir) == MkdirExists(dirs, dir, TRUE)

\* lines 179-187: the result built from what the store returned
Returned(m, stored_doc_path, stored_manifest_path) ==
    IF stored_doc_path = None \/ stored_manifest_path = None
    THEN Update(m,
             [status |-> "FAILED_STORAGE",
              error_message |-> "Local CAS storage or manifest JSON saving failed."]
             @@ (IF stored_doc_path # None
                 THEN [worker_storage_path |-> PathStr(stored_doc_path)]
                 ELSE <<>>))
    ELSE Update(m, [worker_storage_path |-> PathStr(stored_doc_path),
                    worker_manifest_path |-> PathStr(stored_manifest_path),
                    status |-> "SUCCESS"])

\* the store returns (doc, manifest) and core_process_scheduled_file_download
\* returns its result
StoreReturns(p, doc, manifest) ==
    /\ meta' = [meta EXCEPT ![p] = Returned(@, doc, manifest)]
    /\ pc' = [pc EXCEPT ![p] = "done"]

\* a variant of Finally that leaves the temporary file
FinallyKeepsFile(p) == UNCHANGED tmp

\* lines 106-112: the finally clause
Finally(p) == tmp' = [tmp EXCEPT ![p] = IF @.exists THEN Unlinked(@) ELSE @]

\* lines 74-81: an argument is missing (the data source name is empty), or the
\* temporary path is no file
StoreRejected(p) ==
    /\ pc[p] = "store"
    /\ req[p].data_source_name = <<>> \/ ~tmp[p].exists
    /\ Raise(p, "arguments")
    /\ IF req[p].data_source_name = <<>> THEN Finally(p) ELSE UNCHANGED tmp
    /\ StoreReturns(p, None, None)
    /\ UNCHANGED <<call, sameFs, clock, req, loc, steps, preds>>
    /\ UnchangedCas

\* lines 87-88: the CAS directory is created
StoreMkdir(p) ==
    /\ pc[p] = "store"
    /\ req[p].data_source_name # <<>>
    /\ tmp[p].exists
    /\ LET cas_content_dir ==
               CasContentDir(CasRoot, req[p].data_source_name, loc[p].content_hash)
       IN  \E io_ok \in BOOLEAN :
             IF io_ok /\ ~MkdirRaises(casDirs, cas_content_dir)
             THEN /\ casDirs' = casDirs \cup WithParents(cas_content_dir)
                  /\ loc' = [loc EXCEPT ![p] =
                                Update(@, [cas_content_dir |-> cas_content_dir])]
                  /\ steps' = [steps EXCEPT ![p] = Append(@, "mkdir")]
                  /\ pc' = [pc EXCEPT ![p] = "move"]
                  /\ UNCHANGED <<meta, tmp, fault>>
             ELSE /\ Raise(p, IF io_ok THEN "exists" ELSE "mkdir")
                  /\ Finally(p)
                  /\ StoreReturns(p, None, None)
                  /\ UNCHANGED <<casDirs, loc, steps>>
    /\ UNCHANGED <<call, sameFs, clock, req, preds, casDocs, casManifests, wrote>>

\* a variant of Moved that leaves the entry as it was constructed
MovedWithPlaceholder(l) ==
    Update(l, [final_manifest_path |->
                   FinalManifestPath(l.cas_content_dir, l.original_filename)])

\* lines 94-98: after the move the entry gets the final path
Moved(l) ==
    Update(l, [manifest_entry |->
                   [l.manifest_entry EXCEPT !.worker_storage_path = PathStr(l.final_doc_path)],
               final_manifest_path |->
                   FinalManifestPath(l.cas_content_dir, l.original_filename)])

\* a variant of StoreMove that writes the manifest and leaves the file unmoved
StoreManifestBeforeMove(p) ==
    /\ pc[p] = "move"
    /\ LET final_manifest_path ==
               FinalManifestPath(loc[p].cas_content_dir, loc[p].original_filename)
       IN  casManifests' =
               Update(casManifests,
                      (final_manifest_path :> model_dump_json(loc[p].manifest_entry)))
    /\ steps' = [steps EXCEPT ![p] = Append(@, "manifest")]
    /\ pc' = [pc EXCEPT ![p] = "unmoved"]
    /\ UNCHANGED <<call, sameFs, clock, req, loc, meta, tmp, fault, preds, casDirs, casDocs, wrote>>

\* lines 90-91: shutil.move renames the temporary file within one filesystem
\* and starts to copy it across filesystems
StoreMove(p) ==
    /\ pc[p] = "move"
    /\ LET final_doc_path == FinalDocPath(loc[p].cas_content_dir, loc[p].original_filename)
           l == Update(loc[p], [final_doc_path |-> final_doc_path])
       IN  \E io_ok \in BOOLEAN :
             IF ~io_ok
             THEN /\ Raise(p, "move")
                  /\ Finally(p)
                  /\ StoreReturns(p, final_doc_path, None)
                  /\ UNCHANGED <<loc, casDocs, steps>>
             ELSE IF sameFs
             THEN /\ casDocs' = Update(casDocs, (final_doc_path :> tmp[p].data))
                  /\ tmp' = [tmp EXCEPT ![p] = NoFile]
                  /\ loc' = [loc EXCEPT ![p] = Moved(l)]
                  /\ steps' = [steps EXCEPT ![p] = Append(@, "move")]
                  /\ pc' = [pc EXCEPT ![p] = "manifest"]
                  /\ UNCHANGED <<meta, fault>>
             ELSE /\ casDocs' = Update(casDocs, (final_doc_path :> <<>>))
                  /\ loc' = [loc EXCEPT ![p] = Update(l, [copied |-> 0])]
                  /\ steps' = [steps EXCEPT ![p] = Append(@, "copy")]
                  /\ pc' = [pc EXCEPT ![p] = "copy"]
                  /\ UNCHANGED <<meta, tmp, fault>>
    /\ UNCHANGED <<call, sameFs, clock, req, preds, casDirs, casManifests, wrote>>

\* shutil.move across filesystems: one more chunk is copied to the destination
StoreCopyChunk(p) ==
    /\ pc[p] = "copy"
    /\ loc[p].copied < Len(tmp[p].data)
    /\ \E io_ok \in BOOLEAN :
         IF io_ok
         THEN /\ casDocs' = [casDocs EXCEPT ![loc[p].final_doc_path] =
                                WriteAt(@, loc[p].copied, <<tmp[p].data[loc[p].copied + 1]>>)]
              /\ loc' = [loc EXCEPT ![p].copied = @ + 1]
              /\ UNCHANGED <<pc, meta, tmp, fault>>
         ELSE /\ Raise(p, "move")
              /\ Finally(p)
              /\ StoreReturns(p, loc[p].final_doc_path, None)
              /\ UNCHANGED <<loc, casDocs>>
    /\ UNCHANGED <<call, sameFs, clock, req, steps, preds, casDirs, casManifests, wrote>>

\* shutil.move across filesystems: the copy is complete and the source is
\* unlinked
StoreCopyDone(p) ==
    /\ pc[p] = "copy"
    /\ loc[p].copied = Len(tmp[p].data)
    /\ tmp' = [tmp EXCEPT ![p] = NoFile]
    /\ loc' = [loc EXCEPT ![p] = Moved(@)]
    /\ steps' = [steps EXCEPT ![p] = Append(@, "move")]
    /\ pc' = [pc EXCEPT ![p] = "manifest"]
    /\ UNCHANGED <<call, sameFs, clock, req, meta, fault, preds>>
    /\ UnchangedCas

\* line 99: open(final_manifest_path, "w") creates or truncates the manifest
StoreManifestOpen(p) ==
    /\ pc[p] = "manifest"
    /\ \E io_ok \in BOOLEAN :
         IF io_ok
         THEN /\ casManifests' = Update(casManifests, (loc[p].final_manifest_path :> <<>>))
              /\ steps' = [steps EXCEPT ![p] = Append(@, "open")]
              /\ pc' = [pc EXCEPT ![p] = "write"]
              /\ UNCHANGED <<meta, fault>>
         ELSE /\ Raise(p, "manifest")
              /\ StoreReturns(p, loc[p].final_doc_path, loc[p].final_manifest_path)
              /\ UNCHANGED <<casManifests, steps>>
    /\ UNCHANGED <<call, sameFs, clock, req, loc, tmp, preds, casDirs, casDocs, wrote>>

\* lines 100-103: the manifest is written from offset 0 and the file closed
StoreManifestWrite(p) ==
    /\ pc[p] = "write"
    /\ \E io_ok \in BOOLEAN :
         IF io_ok
         THEN /\ casManifests' =
                    [casManifests EXCEPT ![loc[p].final_manifest_path] =
                        WriteAt(@, 0, model_dump_json(loc[p].manifest_entry))]
              /\ wrote' = Append(wrote, p)
              /\ steps' = [steps EXCEPT ![p] = Append(@, "manifest")]
              /\ UNCHANGED fault
         ELSE /\ Raise(p, "manifest")
              /\ UNCHANGED <<casManifests, wrote, steps>>
    /\ StoreReturns(p, loc[p].final_doc_path, loc[p].final_manifest_path)
    /\ UNCHANGED <<call, sameFs, clock, req, loc, tmp, preds, casDirs, casDocs>>

(***************************************************************************)
(* The specification: every invocation runs once, in any interleaving.     *)
(***************************************************************************)
Next ==
    \E p \in Procs :
        \/ Start(p)
        \/ DownloadRefused(p)
        \/ DownloadOpen(p)
        \/ DownloadChunk(p)
        \/ DownloadBroken(p)
        \/ DownloadCancelled(p)
        \/ DownloadDone(p)
        \/ HashFile(p)
        \/ StoreRejected(p)
        \/ StoreMkdir(p)
        \/ StoreMove(p)
        \/ StoreCopyChunk(p)
        \/ StoreCopyDone(p)
        \/ StoreManifestOpen(p)
        \/ StoreManifestWrite(p)

Spec == Init /\ [][Next]_vars

(***************************************************************************)
(* Vocabulary of the properties.                                           *)
(***************************************************************************)
HasReturned(p) == pc[p] = "done"

StatusOf(p) == meta[p].status

HasResult(p, k) == k \in DOMAIN meta[p]

\* the exceptions that come from the environment: the network, the disks, the
\* caller's cancellation, the URL model's validation
EnvFaults ==
    {"request", "stream", "cancelled", "hash", "validation", "mkdir", "move", "manifest"}

\* the steps that create or change something under the CAS root
CasSteps == {"mkdir", "copy", "move", "open", "manifest"}

StepsOf(p) == {steps[p][i] : i \in 1..Len(steps[p])}

\* the two invocations are given the same data source and are served the same
\* bytes under the same filename
SameContent(p, q) ==
    /\ req[p].data_source_name = req[q].data_source_name
    /\ req[p].body = req[q].body
    /\ "download" \in StepsOf(p)
    /\ "download" \in StepsOf(q)
    /\ meta[p].original_filename = meta[q].original_filename

(***************************************************************************)
(* C1: when the write of the manifest fails after the file has been moved  *)
(* into its CAS directory, the status returned is FAILED_STORAGE.          *)
(***************************************************************************)
C1_ManifestFailureIsFailedStorage ==
    \A p \in Procs :
        (HasReturned(p) /\ fault[p] = "manifest" /\ "move" \in StepsOf(p))
            => StatusOf(p) = "FAILED_STORAGE"

(***************************************************************************)
(* C2: when the download fails after the staging file has been created, no *)
(* staging file of the invocation remains once it has returned.            *)
(***************************************************************************)
C2_NoStagingFileAfterFailedDownload ==
    \A p \in Procs :
        (HasReturned(p) /\ StatusOf(p) = "FAILED_DOWNLOAD") => ~tmp[p].exists

C4_NoStagingFileAfterCancellation ==
    \A p \in Procs : pc[p] = "cancelled" => ~tmp[p].exists

(***************************************************************************)
(* C5: the destination path never holds a partially written file: every    *)
(* file at a destination path is the complete body of an invocation that   *)
(* stores to that path.                                                    *)
(***************************************************************************)
C5_NoPartialFileAtDestination ==
    \A path \in DOMAIN casDocs :
        \E p \in Procs :
            /\ "final_doc_path" \in DOMAIN loc[p]
            /\ loc[p].final_doc_path = path
            /\ casDocs[path] = req[p].body

(***************************************************************************)
(* C6: two concurrent invocations for the same data source that are served *)
(* the same bytes and filename both return SUCCESS, and then the directory *)
(* holds the complete file and the manifest of the invocation that wrote   *)
(* its manifest last, whole.                                               *)
(***************************************************************************)
C6_LastManifestWriterWins ==
    \A p, q \in Procs :
        (/\ p # q
         /\ HasReturned(p) /\ HasReturned(q)
         /\ SameContent(p, q)
         /\ req[p].data_source_name # <<>>
         /\ fault[p] = "none" /\ fault[q] = "none")
            => /\ StatusOf(p) = "SUCCESS"
               /\ StatusOf(q) = "SUCCESS"
               /\ casDocs[loc[p].final_doc_path] = req[p].body
               /\ casManifests[loc[p].final_manifest_path] =
                      model_dump_json(loc[wrote[Len(wrote)]].manifest_entry)

(***************************************************************************)
(* C7: of two sequential invocations that are served the same bytes and    *)
(* filename for the same data source, the second computes the directory of *)
(* the first and returns SUCCESS.  The claim as stated covers every data   *)
(* source name; the amended claim covers the non-empty ones.               *)
(***************************************************************************)
\* q started after p had ended, with the same content, and met no exception of
\* the environment
Sequential(p, q) ==
    /\ p \in preds[q]
    /\ HasReturned(p) /\ HasReturned(q)
    /\ SameContent(p, q)
    /\ fault[q] \notin EnvFaults

SecondSucceeds(p, q) ==
    /\ StatusOf(q) = "SUCCESS"
    /\ "cas_content_dir" \in DOMAIN loc[p]
           => loc[q].cas_content_dir = loc[p].cas_content_dir

C8_FailedEarlyTouchesNothing ==
    \A p \in Procs :
        (HasReturned(p) /\ StatusOf(p) \in {"FAILED_DOWNLOAD", "FAILED_HASHING"})
            => /\ StepsOf(p) \cap CasSteps = {}
               /\ ~HasResult(p, "worker_storage_path")
               /\ ~HasResult(p, "worker_manifest_path")
               /\ \A path \in DOMAIN casDocs :
                      \E q \in Procs \ {p} :
                          /\ "final_doc_path" \in DOMAIN loc[q]
                          /\ loc[q].final_doc_path = path

\* hashing failed after a completed download
C8_Witness ==
    \E p \in Procs :
        /\ HasReturned(p)
        /\ StatusOf(p) = "FAILED_HASHING"
        /\ "download" \in StepsOf(p)

(***************************************************************************)
(* C9: on SUCCESS worker_storage_path is                                   *)
(* casRoot/sanitize(dataSourceName)/contentHash/filename and               *)
(* worker_manifest_path is that path with ".manifest.json" appended.       *)
(***************************************************************************)
C9_SuccessPaths ==
    \A p \in Procs :
        (HasReturned(p) /\ StatusOf(p) = "SUCCESS")
            => /\ meta[p].worker_storage_path =
                      PathStr(CasRoot) \o <<"/">>
                      \o sanitize_filename(req[p].data_source_name) \o <<"/">>
                      \o meta[p].content_hash_sha256 \o <<"/">>
                      \o meta[p].original_filename
               /\ meta[p].worker_manifest_path =
                      meta[p].worker_storage_path \o ManifestSuffix

\* a success for a data source name that sanitization changes
C9_Witness ==
    \E p \in Procs :
        /\ HasReturned(p)
        /\ StatusOf(p) = "SUCCESS"
        /\ sanitize_filename(req[p].data_source_name) # req[p].data_source_name

(***************************************************************************)
(* C10: the steps of an invocation occur in the order download, hash,      *)
(* move, manifest: nothing is placed under the CAS root before the hash of *)
(* the completed download is computed, and the manifest is not written     *)
(* before the file is moved.                                               *)
(***************************************************************************)
StepOrder == <<"download", "hash", "mkdir", "copy", "move", "open", "manifest">>

Rank(s) == CHOOSE i \in 1..Len(StepOrder) : StepOrder[i] = s

C10_StepsInOrder ==
    \A p \in Procs :
        /\ \A i, j \in 1..Len(steps[p]) :
               i < j => Rank(steps[p][i]) < Rank(steps[p][j])
        /\ StepsOf(p) \cap CasSteps # {}
               => {"download", "hash"} \subseteq StepsOf(p)
        /\ StepsOf(p) \cap {"open", "manifest"} # {} => "move" \in StepsOf(p)
        /\ "move" \in StepsOf(p) => "mkdir" \in StepsOf(p)

\* an invocation has taken every step
C10_Witness ==
    \E p \in Procs : {"download", "hash", "move", "manifest"} \subseteq StepsOf(p)

(***************************************************************************)
(* Text: the code points of the printable ASCII characters, str.encode,    *)
(* the order of str under sorted(), str.startswith.                        *)
(***************************************************************************)
AsciiPrintable ==
    <<" ", "!", "\"", "#", "$", "%", "&", "'", "(", ")", "*", "+", ",", "-", ".", "/",
      "0", "1", "2", "3", "4", "5", "6", "7", "8", "9", ":", ";", "<", "=", ">", "?",
      "@", "A", "B", "C", "D", "E", "F", "G", "H", "I", "J", "K", "L", "M", "N", "O",
      "P", "Q", "R", "S", "T", "U", "V", "W", "X", "Y", "Z", "[", "\\", "]", "^", "_",
      "GRAVE", "a", "b", "c", "d", "e", "f", "g", "h", "i", "j", "k", "l", "m", "n", "o",
      "p", "q", "r", "s", "t", "u", "v", "w", "x", "y", "z", "{", "|", "}", "~">>

\* ord(c): the table starts at the space character; the grave accent, which
\* no text of the model holds, is spelled by its name
ord ==
    [c \in {AsciiPrintable[i] : i \in DOMAIN AsciiPrintable} |->
        31 + (CHOOSE i \in DOMAIN AsciiPrintable : AsciiPrintable[i] = c)]

\* text.encode('utf-8') of an ASCII text
encode(text) == [i \in DOMAIN text |-> ord[text[i]]]

generate_sha256_hash_from_string(text_content) ==
    generate_sha256_hash_from_bytes(encode(text_content))

RECURSIVE StrLess(_, _)
\* a < b of two str values: by code point, a proper prefix first
StrLess(a, b) ==
    IF b = <<>> THEN FALSE
    ELSE IF a = <<>> THEN TRUE
    ELSE IF Head(a) = Head(b) THEN StrLess(Tail(a), Tail(b))
    ELSE ord[Head(a)] < ord[Head(b)]

RECURSIVE sorted(_)
\* sorted(list(s)) of a set of str values
sorted(s) ==
    IF s = {} THEN <<>>
    ELSE LET least == CHOOSE x \in s : \A y \in s \ {x} : StrLess(x, y)
         IN  <<least>> \o sorted(s \ {least})

startswith(s, prefix) ==
    Len(s) >= Len(prefix) /\ SubSeq(s, 1, Len(prefix)) = prefix

Range(s) == {s[i] : i \in DOMAIN s}

\* str.strip() without argument: the model's texts hold no whitespace but the space
Whitespace == {" "}

\* the first index of s that holds a character of class, 0 when there is none
FindAny(s, class) ==
    LET at == {i \in DOMAIN s : s[i] \in class}
    IN  IF at = {} THEN 0 ELSE CHOOSE i \in at : \A j \in at : i <= j

RECURSIVE Join(_, _)
\* sep.join(parts)
Join(parts, sep) ==
    IF parts = <<>> THEN <<>>
    ELSE IF Len(parts) = 1 THEN parts[1]
    ELSE parts[1] \o sep \o Join(Tail(parts), sep)

(***************************************************************************)
(* urllib.parse as core/web_utils.py and core/artifact_creators.py call    *)
(* it: urlparse and urljoin on URLs without parameters, query and dot      *)
(* segments, with schemes in lower case.                                   *)
(***************************************************************************)
Http == <<"h", "t", "t", "p">>

Https == <<"h", "t", "t", "p", "s">>

Ftp == <<"f", "t", "p">>

\* scheme_chars
SchemeChars == Letters \cup Digits \cup {"+", "-", "."}

\* the members of uses_relative and of uses_netloc that the model's URLs name
UsesRelative == {<<>>, Ftp, Http, Https}

UsesNetloc == {<<>>, Ftp, Http, Https}

\* the index of the colon that ends the scheme of url, 0 when url names no scheme
SchemeEnd(url) ==
    LET i == Find(url, <<":">>)
    IN  IF i > 1 /\ url[1] \in Letters /\ (\A k \in 1..(i - 1) : url[k] \in SchemeChars)
        THEN i
        ELSE 0

\* the split of what follows the network location into path and fragment
SplitFragment(scheme, netloc, tail, hash) ==
    [scheme |-> scheme,
     netloc |-> netloc,
     path |-> IF hash = 0 THEN tail ELSE SubSeq(tail, 1, hash - 1),
     fragment |-> IF hash = 0 THEN <<>> ELSE SubSeq(tail, hash + 1, Len(tail)),
     error |-> ("[" \in Range(netloc)) # ("]" \in Range(netloc))]

SplitTail(scheme, netloc, tail) ==
    SplitFragment(scheme, netloc, tail, Find(tail, <<"#">>))

\* _splitnetloc(url, 2): the network location ends at the first of "/", "?", "#"
SplitNetloc(scheme, after, delim) ==
    IF delim = 0 THEN SplitTail(scheme, after, <<>>)
    ELSE SplitTail(scheme, SubSeq(after, 1, delim - 1), SubSeq(after, delim, Len(after)))

SplitAuthority(scheme, rest) ==
    IF startswith(rest, <<"/", "/">>)
    THEN SplitNetloc(scheme, SubSeq(rest, 3, Len(rest)),
                     FindAny(SubSeq(rest, 3, Len(rest)), {"/", "?", "#"}))
    ELSE SplitTail(scheme, <<>>, rest)

SplitScheme(url, i) ==
    IF i = 0 THEN SplitAuthority(<<>>, url)
    ELSE SplitAuthority(SubSeq(url, 1, i - 1), SubSeq(url, i + 1, Len(url)))

\* urlparse(url): error stands for the ValueError("Invalid IPv6 URL")
urlparse(url) == SplitScheme(url, SchemeEnd(url))

WithFragment(url, fragment) ==
    IF fragment # <<>> THEN url \o <<"#">> \o fragment ELSE url

WithScheme(scheme, url) ==
    IF scheme # <<>> THEN scheme \o <<":">> \o url ELSE url

Rooted(path) ==
    IF path # <<>> /\ path[1] # "/" THEN <<"/">> \o path ELSE path

urlunparse(scheme, netloc, path, fragment) ==
    WithFragment(
        WithScheme(scheme,
                   IF \/ netloc # <<>>
                      \/ /\ scheme # <<>>
                         /\ scheme \in UsesNetloc
                         /\ ~startswith(path, <<"/", "/">>)
                   THEN <<"/", "/">> \o netloc \o Rooted(path)
                   ELSE path),
        fragment)

\* urljoin(base, url) raises what urlparse raises on either argument
UrljoinRaises(base, url) ==
    base # <<>> /\ url # <<>> /\ (urlparse(base).error \/ urlparse(url).error)

\* base_parts: the segments of the base path without the last one, unless it is empty
BaseParts(bparts) ==
    IF bparts[Len(bparts)] # <<>> THEN SubSeq(bparts, 1, Len(bparts) - 1) ELSE bparts

\* segments[1:-1] = filter(None, segments[1:-1])
FilterInner(segments) ==
    IF Len(segments) < 2 THEN segments
    ELSE <<segments[1]>>
         \o SelectSeq(SubSeq(segments, 2, Len(segments) - 1), LAMBDA seg : seg # <<>>)
         \o <<segments[Len(segments)]>>

OrRoot(path) == IF path = <<>> THEN <<"/">> ELSE path

\* '/'.join(resolved_path) or '/'
ResolvedPath(bpath, path) ==
    OrRoot(Join(IF path[1] = "/" THEN SplitOn(path, "/", <<>>)
                ELSE FilterInner(BaseParts(SplitOn(bpath, "/", <<>>))
                                 \o SplitOn(path, "/", <<>>)),
                <<"/">>))

JoinParsed(b, u, url, scheme) ==
    IF scheme # b.scheme \/ scheme \notin UsesRelative THEN url
    ELSE IF scheme \in UsesNetloc /\ u.netloc # <<>>
         THEN urlunparse(scheme, u.netloc, u.path, u.fragment)
    ELSE IF u.path = <<>> THEN urlunparse(scheme, b.netloc, b.path, u.fragment)
    ELSE urlunparse(scheme, b.netloc, ResolvedPath(b.path, u.path), u.fragment)

\* the scheme of url defaults to the scheme of base
JoinSplit(b, u, url) ==
    JoinParsed(b, u, url, IF u.scheme = <<>> THEN b.scheme ELSE u.scheme)

urljoin(base, url) ==
    IF base = <<>> THEN url
    ELSE IF url = <<>> THEN base
    ELSE JoinSplit(urlparse(base), urlparse(url), url)

(***************************************************************************)
(* core/web_utils.py: core_parse_links_and_canonical_from_html.            *)
(* html_content is the sequence of the elements of the document in         *)
(* document order, the empty sequence when no HTML is supplied; an element *)
(* is its tag name with its attributes.                                    *)
(***************************************************************************)
\* the longest document, in elements
MaxNodes == 2

Element(name, attrs) == [name |-> name, attrs |-> attrs]

HasAttr(el, attr) == attr \in DOMAIN el.attrs

Mailto == <<"m", "a", "i", "l", "t", "o", ":">>

Javascript == <<"j", "a", "v", "a", "s", "c", "r", "i", "p", "t", ":">>

\* the href values of the hyperlinks of the model's documents
Hrefs ==
    { <<"#", "t">>,
      Mailto \o <<"x">>,
      Javascript \o <<"v">>,
      <<"/", "b">>,
      <<" ", "/", "b", " ">>,
      <<"c">>,
      <<>>,
      Http \o <<":", "/", "/", "g", "/", "z">>,
      Ftp \o <<":", "/", "/", "g", "/", "z">>,
      <<"/", "/", "[">> }

\* the href values of the canonical links of the model's documents
CanonicalHrefs ==
    { <<" ", "/", "k">>,
      Ftp \o <<":", "/", "/", "g", "/", "k">>,
      Http \o <<":", "/", "/", "g", "/", "z">>,
      <<>>,
      <<"/", "/", "[">> }

Elements ==
    {Element("a", [href |-> h]) : h \in Hrefs}
    \cup {Element("link", [rel |-> "canonical", href |-> h]) : h \in CanonicalHrefs}
    \cup {Element("link", [rel |-> "stylesheet", href |-> <<"/", "s">>]),
          Element("a", [name |-> <<"t">>]),
          Element("p", <<>>)}

Documents == UNION {[1..n -> Elements] : n \in 0..MaxNodes}

OriginalUrls ==
    { Https \o <<":", "/", "/", "h", "/", "p">>,
      Http \o <<":", "/", "/", "h", "/", "d", "/">> }

\* soup.find("link", rel="canonical", href=True): <<>> when there is none
canonical_link_tag(soup) ==
    LET at == {i \in DOMAIN soup :
                   /\ soup[i].name = "link"
                   /\ HasAttr(soup[i], "rel") /\ soup[i].attrs.rel = "canonical"
                   /\ HasAttr(soup[i], "href")}
    IN  IF at = {} THEN <<>> ELSE <<soup[CHOOSE i \in at : \A j \in at : i <= j]>>

\* the canonical link is declared with a non-empty href
CanonicalDeclared(soup) ==
    canonical_link_tag(soup) # <<>> /\ canonical_link_tag(soup)[1].attrs.href # <<>>

\* canonical_link_tag["href"].strip()
CanonicalHref(soup) == Strip(canonical_link_tag(soup)[1].attrs.href, Whitespace)

\* a_tag["href"].strip() of soup.find_all("a", href=True), in document order
AnchorHrefs(soup) ==
    LET anchors == SelectSeq(soup, LAMBDA el : el.name = "a" /\ HasAttr(el, "href"))
    IN  [i \in DOMAIN anchors |-> Strip(anchors[i].attrs.href, Whitespace)]

\* mutant of Followed: fragment-only hrefs are resolved too
FollowedWithFragments(href) ==
    href # <<>> /\ ~startswith(href, Mailto) /\ ~startswith(href, Javascript)

\* the hrefs that the loop resolves
Followed(href) ==
    /\ href # <<>>
    /\ ~startswith(href, <<"#">>)
    /\ ~startswith(href, Mailto)
    /\ ~startswith(href, Javascript)

NoHtmlMessage == "No HTML content provided for parsing."

ParserError == "bs4.FeatureNotFound"

InvalidUrl == "Invalid IPv6 URL"

\* the exception raised inside the try block, "none" when there is none
ParsingException(html_content, original_page_url, parser_ok) ==
    IF ~parser_ok THEN ParserError
    ELSE IF /\ CanonicalDeclared(html_content)
            /\ UrljoinRaises(original_page_url, CanonicalHref(html_content))
         THEN InvalidUrl
    ELSE IF \E h \in Range(AnchorHrefs(html_content)) :
                Followed(h) /\ UrljoinRaises(original_page_url, h)
         THEN InvalidUrl
    ELSE "none"

\* mutant of CanonicalStep: without the fallback to the original URL
CanonicalStepWithoutFallback(result_data, soup, original_page_url) ==
    IF CanonicalDeclared(soup) /\ urlparse(urljoin(original_page_url, CanonicalHref(soup))).scheme \in {Http, Https}
    THEN Update(result_data,
                [canonical_url |-> urljoin(original_page_url, CanonicalHref(soup)),
                 canonical_url_hash_sha256 |->
                     generate_sha256_hash_from_string(
                         urljoin(original_page_url, CanonicalHref(soup)))])
    ELSE result_data

\* result_data after the extraction of the canonical URL
CanonicalStep(result_data, soup, original_page_url) ==
    IF CanonicalDeclared(soup)
    THEN LET found_canonical_url_str == urljoin(original_page_url, CanonicalHref(soup))
         IN  IF urlparse(found_canonical_url_str).scheme \in {Http, Https}
             THEN Update(result_data,
                         [canonical_url |-> found_canonical_url_str,
                          canonical_url_hash_sha256 |->
                              generate_sha256_hash_from_string(found_canonical_url_str)])
             ELSE result_data
    ELSE Update(result_data,
                [canonical_url |-> original_page_url,
                 canonical_url_hash_sha256 |->
                     generate_sha256_hash_from_string(original_page_url)])

\* extracted_links_set after the loop over the hyperlinks
extracted_links_set(soup, original_page_url) ==
    {u \in {urljoin(original_page_url, h) :
                h \in {g \in Range(AnchorHrefs(soup)) : Followed(g)}} :
        urlparse(u).scheme \in {Http, Https}}

\* mutant of FailedParsing: the exception handler records nothing
FailedParsingUnrecorded(result_data, e) == result_data

\* result_data after an exception e in the try block
FailedParsing(result_data, e) ==
    Update(result_data, [status |-> "FAILED_PARSING", error_message |-> e])

core_parse_links_and_canonical_from_html(html_content, original_page_url, parser_ok) ==
    LET result_data == [original_url |-> original_page_url,
                        canonical_url |-> None,
                        canonical_url_hash_sha256 |-> None,
                        extracted_links |-> <<>>,
                        status |-> "INITIATED_PARSING"]
        e == ParsingException(html_content, original_page_url, parser_ok)
    IN  IF html_content = <<>>
        THEN Update(result_data,
                    [status |-> "FAILED_NO_HTML", error_message |-> NoHtmlMessage])
        ELSE IF ~parser_ok THEN FailedParsing(result_data, e)
        ELSE IF /\ CanonicalDeclared(html_content)
                /\ UrljoinRaises(original_page_url, CanonicalHref(html_content))
             THEN FailedParsing(result_data, e)
        ELSE LET with_canonical ==
                     CanonicalStep(result_data, html_content, original_page_url)
             IN  IF e # "none" THEN FailedParsing(with_canonical, e)
                 ELSE Update(with_canonical,
                             [extracted_links |->
                                  sorted(extracted_links_set(html_content,
                                                             original_page_url)),
                              status |-> "SUCCESS"])

(***************************************************************************)
(* The calls of core_parse_links_and_canonical_from_html.                  *)
(***************************************************************************)
pipeline ==
    <<sameFs, clock, req, pc, loc, meta, tmp, casDirs, casDocs, casManifests,
      fault, steps, preds, wrote>>

\* the download pipeline at rest
Quiescent ==
    /\ sameFs = TRUE
    /\ clock = 0
    /\ req = [p \in Procs |-> CHOOSE r \in Requests : TRUE]
    /\ pc = [p \in Procs |-> "idle"]
    /\ loc = [p \in Procs |-> <<>>]
    /\ meta = [p \in Procs |-> <<>>]
    /\ tmp = [p \in Procs |-> NoFile]
    /\ casDirs = {}
    /\ casDocs = <<>>
    /\ casManifests = <<>>
    /\ fault = [p \in Procs |-> "none"]
    /\ steps = [p \in Procs |-> <<>>]
    /\ preds = [p \in Procs |-> {}]
    /\ wrote = <<>>

ParseCalls ==
    [fn : {"core_parse_links_and_canonical_from_html"},
     html_content : Documents,
     original_page_url : OriginalUrls,
     outcome : {"called"},
     exception : {"none"},
     result : {<<>>}]

InitParse == Quiescent /\ call \in ParseCalls

\* the call runs to its return statement
Parse ==
    /\ call.outcome = "called"
    /\ \E parser_ok \in BOOLEAN :
          call' = [call EXCEPT
                      !.outcome = "returned",
                      !.exception = IF call.html_content = <<>> THEN "none"
                                    ELSE ParsingException(call.html_content,
                                                          call.original_page_url,
                                                          parser_ok),
                      !.result = core_parse_links_and_canonical_from_html(
                                     call.html_content, call.original_page_url,
                                     parser_ok)]
    /\ UNCHANGED pipeline

NextParse == Parse

SpecParse == InitParse /\ [][NextParse]_vars

(***************************************************************************)
(* Vocabulary of the properties of the link extraction.                    *)
(***************************************************************************)
Parsed == call.outcome = "returned"

\* the parser built a tree of the document
TreeBuilt == call.html_content # <<>> /\ call.exception # ParserError

\* the canonical link of the document resolves, and not to an http or https URL
InvalidCanonical ==
    /\ CanonicalDeclared(call.html_content)
    /\ ~UrljoinRaises(call.original_page_url, CanonicalHref(call.html_content))
    /\ urlparse(urljoin(call.original_page_url,
                        CanonicalHref(call.html_content))).scheme \notin {Http, Https}

\* the hrefs of the hyperlinks of the document, trimmed, that can be resolved
Resolvable ==
    {h \in Range(AnchorHrefs(call.html_content)) :
        ~UrljoinRaises(call.original_page_url, h)}

Excluded(h) ==
    \/ startswith(h, <<"#">>)
    \/ startswith(h, Mailto)
    \/ startswith(h, Javascript)

HttpOnly(urls) == {u \in urls : urlparse(u).scheme \in {Http, Https}}

\* the links as the specification words them: every href but the excluded targets
ClaimedLinks ==
    HttpOnly({urljoin(call.original_page_url, h) :
                  h \in {g \in Resolvable : g = <<>> \/ ~Excluded(g)}})

\* the links of the non-empty hrefs but the excluded targets
NonEmptyLinks ==
    HttpOnly({urljoin(call.original_page_url, h) :
                  h \in {g \in Resolvable : g # <<>> /\ ~Excluded(g)}})

\* links is the duplicate-free ascending sequence of the members of urls
AscendingOf(links, urls) ==
    /\ Range(links) = urls
    /\ \A i \in DOMAIN links : \A j \in DOMAIN links : i < j => StrLess(links[i], links[j])

(***************************************************************************)
(* C11: when the document declares a canonical link whose href, resolved   *)
(* against the original URL, does not have the scheme http or https, the   *)
(* canonical URL of the result is the original URL itself.                 *)
(***************************************************************************)
C11_InvalidCanonicalFallsBackToOriginal ==
    (Parsed /\ TreeBuilt /\ InvalidCanonical)
        => call.result.canonical_url = call.original_page_url

(***************************************************************************)
(* C12: every result with status SUCCESS carries a canonical URL and a     *)
(* canonical-URL hash, both not null, and the hash is the SHA-256 of the   *)
(* canonical URL of the same result.                                       *)
(***************************************************************************)
C12_SuccessCarriesHashedCanonical ==
    (Parsed /\ call.result.status = "SUCCESS")
        => /\ call.result.canonical_url # None
           /\ call.result.canonical_url_hash_sha256 # None
           /\ call.result.canonical_url_hash_sha256
                  = generate_sha256_hash_from_string(call.result.canonical_url)

(***************************************************************************)
(* C13: for non-empty HTML without a canonical link, and every original    *)
(* URL, the canonical URL of the result is the original URL.               *)
(***************************************************************************)
C13_NoCanonicalLinkMeansOriginalUrl ==
    (Parsed /\ TreeBuilt /\ canonical_link_tag(call.html_content) = <<>>)
        => call.result.canonical_url = call.original_page_url

C13_Witness ==
    /\ Parsed /\ TreeBuilt
    /\ canonical_link_tag(call.html_content) = <<>>
    /\ Len(call.html_content) = 2
    /\ call.original_page_url[5] = ":"
    /\ call.result.status = "SUCCESS"
    /\ call.result.canonical_url = call.original_page_url

(***************************************************************************)
(* C14 as stated: for every document and original URL the extracted links  *)
(* are the duplicate-free ascending sequence of the http and https URLs    *)
(* that the hrefs resolve to, the fragment-only, mailto: and javascript:   *)
(* hrefs left out.                                                         *)
(***************************************************************************)
C14_LinksOfEveryDocument ==
    (Parsed /\ TreeBuilt) => AscendingOf(call.result.extracted_links, ClaimedLinks)

(***************************************************************************)
(* C14, amended: in every result with status SUCCESS the extracted links   *)
(* are the duplicate-free ascending sequence of the http and https URLs    *)
(* that the non-empty trimmed hrefs resolve to, the fragment-only, mailto: *)
(* and javascript: hrefs left out; in every other result they are empty.   *)
(***************************************************************************)
C14_LinksOfSuccessfulExtraction ==
    Parsed => IF call.result.status = "SUCCESS"
              THEN AscendingOf(call.result.extracted_links, NonEmptyLinks)
              ELSE call.result.extracted_links = <<>>

C14_Witness ==
    /\ Parsed
    /\ call.result.status = "SUCCESS"
    /\ Len(call.result.extracted_links) = 1
    /\ Element("a", [href |-> <<"#", "t">>]) \in Range(call.html_content)
    /\ Element("a", [href |-> <<"c">>]) \in Range(call.html_content)

(***************************************************************************)
(* C15: the call never raises; the status of its result is SUCCESS,        *)
(* FAILED_NO_HTML or FAILED_PARSING: FAILED_NO_HTML exactly when no HTML   *)
(* was supplied, FAILED_PARSING, with an error message, exactly when the   *)
(* parsing or the extraction raised, SUCCESS otherwise.                    *)
(***************************************************************************)
C15_StatusTellsTheOutcome ==
    /\ call.outcome \in {"called", "returned"}
    /\ Parsed =>
          /\ call.result.status \in {"SUCCESS", "FAILED_NO_HTML", "FAILED_PARSING"}
          /\ call.result.status = "FAILED_NO_HTML" <=> call.html_content = <<>>
          /\ call.result.status = "FAILED_PARSING" <=> call.exception # "none"
          /\ call.result.status = "FAILED_PARSING"
                 => /\ "error_message" \in DOMAIN call.result
                    /\ call.result.error_message = call.exception

C15_Witness ==
    /\ Parsed
    /\ call.exception = InvalidUrl
    /\ call.result.status = "FAILED_PARSING"
    /\ call.result.error_message = InvalidUrl
    /\ call.result.canonical_url = call.original_page_url

(***************************************************************************)
(* json.loads as response.json() calls it, on texts without whitespace,    *)
(* nesting and escapes: null, a number, a string, or an object of scalars. *)
(* None stands for null, an integer for a number, [str |-> s] for a        *)
(* string, [dict |-> items] for an object with its items in order.         *)
(***************************************************************************)
JsonNull == <<"n", "u", "l", "l">>

Failed == [ok |-> FALSE, value |-> None]

Decoded(value) == [ok |-> TRUE, value |-> value]

RECURSIVE int(_)
\* int(digits)
int(digits) ==
    IF digits = <<>> THEN 0
    ELSE 10 * int(SubSeq(digits, 1, Len(digits) - 1))
         + ((CHOOSE d \in 1..10 : HexDigits[d] = digits[Len(digits)]) - 1)

IsJsonString(text) ==
    /\ Len(text) >= 2
    /\ text[1] = "\"" /\ text[Len(text)] = "\""
    /\ \A i \in 2..(Len(text) - 1) : text[i] # "\""

JsonScalar(text) ==
    IF text = JsonNull THEN Decoded(None)
    ELSE IF text # <<>> /\ Range(text) \subseteq Digits THEN Decoded(int(text))
    ELSE IF IsJsonString(text) THEN Decoded([str |-> SubSeq(text, 2, Len(text) - 1)])
    ELSE Failed

\* the item of one member 'key:value' of an object, Failed when it is none
JsonMember(parts) ==
    IF Len(parts) = 2 /\ IsJsonString(parts[1]) /\ JsonScalar(parts[2]).ok
    THEN Decoded(<<SubSeq(parts[1], 2, Len(parts[1]) - 1), JsonScalar(parts[2]).value>>)
    ELSE Failed

JsonMembers(texts) ==
    [i \in DOMAIN texts |-> JsonMember(SplitOn(texts[i], ":", <<>>))]

JsonItems(members) ==
    IF \A i \in DOMAIN members : members[i].ok
    THEN Decoded([dict |-> [i \in DOMAIN members |-> members[i].value]])
    ELSE Failed

json_loads(text) ==
    IF Len(text) >= 2 /\ text[1] = "{" /\ text[Len(text)] = "}"
    THEN IF Len(text) = 2 THEN Decoded([dict |-> <<>>])
         ELSE JsonItems(JsonMembers(SplitOn(SubSeq(text, 2, Len(text) - 1), ",", <<>>)))
    ELSE JsonScalar(text)

(***************************************************************************)
(* core/api_handlers.py: core_fetch_json_from_api.                         *)
(***************************************************************************)
ApiUrls ==
    { Https \o <<":", "/", "/", "h", "/", "f">>,
      Https \o <<":", "/", "/", "h", "/", "a">> }

ApiParams == { None, << <<"n", <<"1">>>> >> }

\* the response bodies: objects, scalars, and texts that are no JSON
ApiBodies ==
    { <<"{", "\"", "f", "\"", ":", "\"", "x", "\"", ",", "\"", "n", "\"", ":", "1", "2", "}">>,
      <<"{", "\"", "f", "\"", ":", "n", "u", "l", "l", "}">>,
      <<"{", "}">>,
      <<"\"", "s", "\"">>,
      <<"7">>,
      JsonNull,
      <<"{", "\"", "f", "\"", ":">>,
      <<"<", "p", ">">>,
      <<>> }

StatusCodes == {200, 201, 404, 503}

\* what the server does with the request: no answer, or a status and a body
Answers ==
    {[error |-> "httpx.ConnectError", status_code |-> 0, text |-> <<>>]}
    \cup [error : {"none"}, status_code : StatusCodes, text : ApiBodies]

\* response.is_success
is_success(response) == response.status_code \in 200..299

\* the exception raised inside the try block, "none" when there is none
FetchException(response) ==
    IF response.error # "none" THEN "httpx.RequestError"
    ELSE IF ~is_success(response) THEN "httpx.HTTPStatusError"
    ELSE IF ~json_loads(response.text).ok THEN "json.JSONDecodeError"
    ELSE "none"

\* the exceptions whose except clause comes before 'except json.JSONDecodeError'
CaughtFirst == {"httpx.HTTPStatusError", "httpx.RequestError"}

core_fetch_json_from_api(response) ==
    IF FetchException(response) = "none"
    THEN [outcome |-> "returned", exception |-> "none",
          result |-> json_loads(response.text).value]
    ELSE IF FetchException(response) \in CaughtFirst
    THEN [outcome |-> "returned", exception |-> "none", result |-> None]
    ELSE \* the module never imports json: the clause itself raises
         [outcome |-> "raised", exception |-> "NameError", result |-> None]

FetchCalls ==
    [fn : {"core_fetch_json_from_api"},
     url : ApiUrls,
     params : ApiParams,
     response : Answers,
     outcome : {"called"},
     exception : {"none"},
     result : {None}]

InitFetch == Quiescent /\ call \in FetchCalls

\* the call runs to its return statement or to the exception that leaves it
Fetch ==
    /\ call.outcome = "called"
    /\ call' = [call EXCEPT
                   !.outcome = core_fetch_json_from_api(call.response).outcome,
                   !.exception = core_fetch_json_from_api(call.response).exception,
                   !.result = core_fetch_json_from_api(call.response).result]
    /\ UNCHANGED pipeline

NextFetch == Fetch

SpecFetch == InitFetch /\ [][NextFetch]_vars

(***************************************************************************)
(* C16: the fetch never raises to its caller: on an HTTP status error, on  *)
(* a network error and on a body that is not valid JSON it returns null;   *)
(* it returns the parsed body only for a 2xx response with a valid body.   *)
(***************************************************************************)
C16_FetchNeverRaises ==
    /\ call.outcome # "raised"
    /\ call.outcome = "returned" =>
          call.result = IF /\ call.response.error = "none"
                           /\ call.response.status_code \in 200..299
                           /\ json_loads(call.response.text).ok
                        THEN json_loads(call.response.text).value
                        ELSE None

(***************************************************************************)
(* core/artifact_creators.py: save_scraped_page_manifest_locally.  The     *)
(* manifests are written under the CAS root of the download pipeline; a    *)
(* manifest file is the sequence of the members that json.dump wrote.      *)
(***************************************************************************)
\* the most calls of save_scraped_page_manifest_locally in one behaviour
MaxSaves == 2

ScrapedPagesManifests ==
    <<"s", "c", "r", "a", "p", "e", "d", "_", "p", "a", "g", "e", "s", "_",
      "m", "a", "n", "i", "f", "e", "s", "t", "s">>

ScrapedPageData ==
    <<"s", "c", "r", "a", "p", "e", "d", "_", "p", "a", "g", "e", "_", "d", "a", "t", "a">>

ScrapedPageDataPlain ==
    <<"s", "c", "r", "a", "p", "e", "d", "p", "a", "g", "e", "d", "a", "t", "a">>

\* d.get(k) of a dictionary held as a record
get(d, k) == IF k \in DOMAIN d THEN d[k] ELSE None

PageUrl == Https \o <<":", "/", "/", "h", "/", "p">>

OtherPageUrl == Http \o <<":", "/", "/", "h", "/", "d", "/">>

\* a page that declares the canonical URL http://g/z
CanonicalPage ==
    <<Element("link", [rel |-> "canonical",
                       href |-> Http \o <<":", "/", "/", "g", "/", "z">>])>>

\* the results of the link extraction that are saved: of no HTML, of a page
\* without canonical link, of a page with an invalid href, of two pages with
\* one canonical URL, and of a page whose canonical link is no http URL
Scraped ==
    { core_parse_links_and_canonical_from_html(<<>>, PageUrl, TRUE),
      core_parse_links_and_canonical_from_html(
          <<Element("a", [href |-> <<"/", "b">>])>>, PageUrl, TRUE),
      core_parse_links_and_canonical_from_html(
          <<Element("a", [href |-> <<"/", "/", "[">>])>>, PageUrl, TRUE),
      core_parse_links_and_canonical_from_html(CanonicalPage, PageUrl, TRUE),
      core_parse_links_and_canonical_from_html(CanonicalPage, OtherPageUrl, TRUE),
      core_parse_links_and_canonical_from_html(
          <<Element("link", [rel |-> "canonical",
                             href |-> Ftp \o <<":", "/", "/", "g", "/", "k">>])>>,
          PageUrl, TRUE) }

\* the scrape results, two of them also without their hash, one also without
\* its original URL, and the missing result
ScrapeResults ==
    Scraped
    \cup {Update(core_parse_links_and_canonical_from_html(CanonicalPage, u, TRUE),
                 [canonical_url_hash_sha256 |-> None]) : u \in {PageUrl, OtherPageUrl}}
    \cup {Update(core_parse_links_and_canonical_from_html(CanonicalPage, PageUrl, TRUE),
                 [original_url |-> None]),
          None}

\* mutant of Rejected: the status of the scrape result is not looked at
RejectedWithoutStatus(scrape_result) ==
    scrape_result = None \/ get(scrape_result, "original_url") = None

\* lines 150-157: the early returns
Rejected(scrape_result) ==
    \/ scrape_result = None
    \/ get(scrape_result, "status") # "SUCCESS"
    \/ get(scrape_result, "original_url") = None

\* lines 159-167
unique_page_hash(scrape_result) ==
    IF get(scrape_result, "canonical_url_hash_sha256") # None
    THEN get(scrape_result, "canonical_url_hash_sha256")
    ELSE generate_sha256_hash_from_string(
             IF get(scrape_result, "canonical_url") # None
             THEN get(scrape_result, "canonical_url")
             ELSE get(scrape_result, "original_url"))

\* line 171
filename_base_source(parsed_original_url) ==
    IF Strip(parsed_original_url.path, {"/"}) # <<>>
    THEN Strip(parsed_original_url.path, {"/"})
    ELSE parsed_original_url.netloc

NotEmpty(name) == IF name = <<>> THEN ScrapedPageDataPlain ELSE name

\* lines 170-173
filename_base(original_url) ==
    NotEmpty(sanitize_filename_default(filename_base_source(urlparse(original_url)),
                                       ScrapedPageData))

\* mutant of manifest_dir: the directory does not depend on the page
manifest_dir_of_source(target_base_dir, data_source_id, page_hash) ==
    PathJoin(PathJoin(target_base_dir, sanitize_filename(data_source_id)),
             ScrapedPagesManifests)

\* line 177
manifest_dir(target_base_dir, data_source_id, page_hash) ==
    PathJoin(PathJoin(PathJoin(target_base_dir, sanitize_filename(data_source_id)),
                      ScrapedPagesManifests),
             page_hash)

\* line 180
manifest_file_path(dir, original_url) ==
    PathJoin(dir, filename_base(original_url) \o ManifestSuffix)

\* datetime.utcnow().isoformat() + "Z"
isoformat(now) == <<now, "Z">>

\* lines 183-195, as json.dump writes the members
manifest_content_to_save(scrape_result, data_source_id, now) ==
    << <<"data_source_name", data_source_id>>,
       <<"scrape_timestamp_utc", isoformat(now)>>,
       <<"original_url", get(scrape_result, "original_url")>>,
       <<"canonical_url", get(scrape_result, "canonical_url")>>,
       <<"canonical_url_hash_sha256", get(scrape_result, "canonical_url_hash_sha256")>>,
       <<"extracted_links_count", Len(get(scrape_result, "extracted_links"))>>,
       <<"extracted_links", get(scrape_result, "extracted_links")>>,
       <<"status_of_scrape", get(scrape_result, "status")>> >>
    \o (IF "error_message" \in DOMAIN scrape_result
        THEN << <<"scrape_error_message", get(scrape_result, "error_message")>> >>
        ELSE <<>>)

\* what goes wrong in the try block: nothing, mkdir, open, or json.dump
PageFaults == {"none", "mkdir", "open", "write"}

\* the call returns: its arguments and what it returned are kept
SaveReturns(scrape_result, data_source_id, io, returned) ==
    /\ call' = [call EXCEPT !.invocations =
                   Append(@, [scrape_result |-> scrape_result,
                              data_source_id |-> data_source_id,
                              time |-> clock,
                              fault |-> io,
                              returned |-> returned])]
    /\ clock' = clock + 1
    /\ UNCHANGED <<sameFs, req, pc, loc, meta, tmp, casDocs, fault, steps, preds, wrote>>

\* lines 175-204: the directory, the file, its members, and the path or None
SaveAt(scrape_result, data_source_id, io, dir, path, content) ==
    /\ casDirs' = IF io = "mkdir" THEN casDirs ELSE casDirs \cup WithParents(dir)
    /\ \E written \in {0, Len(content) - 1} :
          casManifests' =
              IF io \in {"mkdir", "open"} THEN casManifests
              ELSE IF io = "write"
                   THEN Update(casManifests, (path :> SubSeq(content, 1, written)))
              ELSE Update(casManifests, (path :> content))
    /\ SaveReturns(scrape_result, data_source_id, io, IF io = "none" THEN path ELSE None)

SaveIn(scrape_result, data_source_id, io, dir) ==
    SaveAt(scrape_result, data_source_id, io, dir,
           manifest_file_path(dir, get(scrape_result, "original_url")),
           manifest_content_to_save(scrape_result, data_source_id, clock))

save_scraped_page_manifest_locally(scrape_result, target_base_dir, data_source_id, io) ==
    IF Rejected(scrape_result)
    THEN /\ io = "none"
         /\ SaveReturns(scrape_result, data_source_id, io, None)
         /\ UNCHANGED <<casDirs, casManifests>>
    ELSE SaveIn(scrape_result, data_source_id, io,
                manifest_dir(target_base_dir, data_source_id,
                             unique_page_hash(scrape_result)))

InitPage ==
    /\ Quiescent
    /\ call = [fn |-> "save_scraped_page_manifest_locally", invocations |-> <<>>]

SavePage ==
    /\ Len(call.invocations) < MaxSaves
    /\ \E scrape_result \in ScrapeResults :
          \E data_source_id \in DataSourceNames :
             \E io \in PageFaults :
                save_scraped_page_manifest_locally(scrape_result, CasRoot,
                                                   data_source_id, io)

NextPage == SavePage

SpecPage == InitPage /\ [][NextPage]_vars

(***************************************************************************)
(* Vocabulary of the properties of the page manifests.                     *)
(***************************************************************************)
Saves == call.invocations

\* the scrape result is missing, not successful, or without original URL
Unusable(scrape_result) ==
    \/ scrape_result = None
    \/ scrape_result.status # "SUCCESS"
    \/ scrape_result.original_url = None

\* a complete page manifest is at path
PageManifestAt(manifests, path) ==
    /\ path \in DOMAIN manifests
    /\ manifests[path] # <<>>
    /\ manifests[path][1][1] = "data_source_name"
    /\ HasKey(manifests[path], "status_of_scrape")

\* the hash that names the directory of a scrape result
PageHash(scrape_result) ==
    IF scrape_result.canonical_url_hash_sha256 # None
    THEN scrape_result.canonical_url_hash_sha256
    ELSE IF scrape_result.canonical_url # None
    THEN generate_sha256_hash_from_string(scrape_result.canonical_url)
    ELSE generate_sha256_hash_from_string(scrape_result.original_url)

PageDir(inv) ==
    CasRoot \o <<sanitize_filename(inv.data_source_id),
                 ScrapedPagesManifests,
                 PageHash(inv.scrape_result)>>

DirOf(path) == SubSeq(path, 1, Len(path) - 1)

IsManifestName(name) ==
    /\ Len(name) > Len(ManifestSuffix)
    /\ SubSeq(name, Len(name) - Len(ManifestSuffix) + 1, Len(name)) = ManifestSuffix

(***************************************************************************)
(* C17: the call returns null and creates or modifies no file and no       *)
(* directory when the scrape result is missing, its status is not SUCCESS  *)
(* or its original URL is missing or empty; and whenever the call returns  *)
(* a path, a manifest file is at that path.                                *)
(***************************************************************************)
C17_UnusableResultTouchesNothing ==
    [][Len(call'.invocations) = Len(call.invocations) + 1 =>
          /\ Unusable(call'.invocations[Len(call'.invocations)].scrape_result) =>
                /\ call'.invocations[Len(call'.invocations)].returned = None
                /\ casDirs' = casDirs
                /\ casManifests' = casManifests
          /\ call'.invocations[Len(call'.invocations)].returned # None =>
                PageManifestAt(casManifests',
                               call'.invocations[Len(call'.invocations)].returned)]_vars

C17_Witness ==
    /\ Len(Saves) = 2
    /\ Saves[1].returned # None
    /\ Saves[2].scrape_result # None
    /\ Saves[2].scrape_result.status = "FAILED_PARSING"
    /\ Saves[2].data_source_id # Saves[1].data_source_id
    /\ Saves[2].returned = None
    /\ DOMAIN casManifests = {Saves[1].returned}
    /\ casDirs = WithParents(DirOf(Saves[1].returned))

(***************************************************************************)
(* C18: every manifest written to disk, by the download pipeline for a     *)
(* stored file and by save_scraped_page_manifest_locally for a scraped     *)
(* page, has a member manifest_schema_version.                             *)
(***************************************************************************)
C18_EveryManifestHasSchemaVersion ==
    /\ \A p \in Procs :
          ( /\ wrote # <<>> /\ wrote[Len(wrote)] = p
            /\ casManifests[loc[p].final_manifest_path] # <<>> )
              => HasKey(casManifests[loc[p].final_manifest_path],
                        "manifest_schema_version")
    /\ \A i \in DOMAIN Saves :
          (i = Len(Saves) /\ Saves[i].returned # None)
              => HasKey(casManifests[Saves[i].returned], "manifest_schema_version")

(***************************************************************************)
(* C19: the manifest is written to                                         *)
(* casRoot/sanitize(dataSourceName)/scraped_pages_manifests/hash/name      *)
(* with name ending in .manifest.json, where hash is the canonical-URL     *)
(* hash of the scrape result, or without it the SHA-256 of its canonical   *)
(* URL, or else of its original URL; two calls with the same data source   *)
(* and the same canonical URL write into the same directory, whenever      *)
(* they run.                                                               *)
(***************************************************************************)
C19_PageManifestPathIsStable ==
    /\ \A i \in DOMAIN Saves :
          Saves[i].returned # None
              => /\ DirOf(Saves[i].returned) = PageDir(Saves[i])
                 /\ IsManifestName(Saves[i].returned[Len(Saves[i].returned)])
    /\ \A i \in DOMAIN Saves : \A j \in DOMAIN Saves :
          ( /\ Saves[i].returned # None /\ Saves[j].returned # None
            /\ Saves[i].data_source_id = Saves[j].data_source_id
            /\ Saves[i].scrape_result.canonical_url # None
            /\ Saves[i].scrape_result.canonical_url = Saves[j].scrape_result.canonical_url )
              => DirOf(Saves[i].returned) = DirOf(Saves[j].returned)

C19_Witness ==
    /\ Len(Saves) = 2
    /\ Saves[1].returned # None /\ Saves[2].returned # None
    /\ Saves[1].time # Saves[2].time
    /\ Saves[1].data_source_id = <<"d", " ", "x">>
    /\ Saves[2].data_source_id = <<"d", " ", "x">>
    /\ Saves[1].scrape_result.original_url # Saves[2].scrape_result.original_url
    /\ Saves[1].scrape_result.canonical_url = Http \o <<":", "/", "/", "g", "/", "z">>
    /\ Saves[2].scrape_result.canonical_url = Saves[1].scrape_result.canonical_url
    /\ Saves[1].scrape_result.canonical_url_hash_sha256 # None
    /\ Saves[2].scrape_result.canonical_url_hash_sha256 = None
    /\ DirOf(Saves[1].returned) = DirOf(Saves[2].returned)
    /\ Saves[1].returned # Saves[2].returned
    /\ Saves[1].returned[2] = <<"d", "_", "x">>

(***************************************************************************)
(* C20: the stored filename is the sanitized filename of the               *)
(* Content-Disposition header of the response whenever that header is      *)
(* present with a filename, and the sanitized last segment of the URL path *)
(* (a fixed default name when that segment is empty) only when it is not.  *)
(***************************************************************************)
C20_FilenameFromContentDisposition ==
    \A p \in Procs :
        "original_filename" \in DOMAIN loc[p] =>
            loc[p].original_filename =
                IF \E i \in DOMAIN req[p].headers :
                       /\ LowerKey(req[p].headers[i][1]) = "content-disposition"
                       /\ DispositionFilename(req[p].headers[i][2]) # <<>>
                THEN sanitize_filename(
                         DispositionFilename(
                             req[p].headers[CHOOSE i \in DOMAIN req[p].headers :
                                 LowerKey(req[p].headers[i][1]) = "content-disposition"][2]))
                ELSE IF PathName(req[p].url_path) # <<>>
                THEN sanitize_filename(PathName(req[p].url_path))
                ELSE sanitize_filename(UnknownDownload)

(***************************************************************************)
(* The calls of sanitize_filename.                                         *)
(***************************************************************************)
\* the longest filename drawn from SanitizeAlphabet
MaxName == 3

\* a letter, the period, both slashes, a space, the hyphen, the underscore
\* and a character the pattern of line 60 removes
SanitizeAlphabet == {"a", ".", "/", "\\", " ", "-", "_", "$"}

EtcPasswd ==
    <<".", ".", "/", ".", ".", "/", "e", "t", "c", "/", "p", "a", "s", "s", "w", "d">>

Passwd == <<"p", "a", "s", "s", "w", "d">>

Filenames ==
    UNION {[1..n -> SanitizeAlphabet] : n \in 0..MaxName} \cup {EtcPasswd}

\* default_name: the kind of literal the callers pass, and two paths
DefaultNames == { <<"x">>, <<".", ".">>, <<".", ".", "/", "y">> }

SanitizeCalls ==
    [fn : {"sanitize_filename"},
     filename : Filenames,
     default_name : DefaultNames,
     outcome : {"called"},
     result : {<<>>}]

InitSanitize == Quiescent /\ call \in SanitizeCalls

\* the call runs to its return statement
Sanitize ==
    /\ call.outcome = "called"
    /\ call' = [call EXCEPT
                   !.outcome = "returned",
                   !.result = sanitize_filename_default(call.filename,
                                                        call.default_name)]
    /\ UNCHANGED pipeline

NextSanitize == Sanitize

SpecSanitize == InitSanitize /\ [][NextSanitize]_vars

(***************************************************************************)
(* Vocabulary of the properties of sanitize_filename.                      *)
(***************************************************************************)
\* a non-empty name without a separator that is neither "." nor ".."
SafeToken(t) ==
    /\ t # <<>>
    /\ "/" \notin Range(t)
    /\ "\\" \notin Range(t)
    /\ t # <<".">>
    /\ t # <<".", ".">>

\* the letters and digits of the last component of the filename
Survivors(filename) ==
    SelectSeq(PathName(filename), LAMBDA c : c \in Letters \cup Digits)

Sanitized == call.outcome = "returned"

SanitizedAsClaimed ==
    /\ SafeToken(call.result)
    /\ Survivors(call.filename) = <<>> => call.result = call.default_name

MaxItems == 4

ItemKeys == {"fact", "length", "activity", "type", "activity_type", "a", "b"}

\* the value the server sends under each key
ItemValue(k) ==
    CASE k = "fact" -> [str |-> <<"x">>]
      [] k = "length" -> 1
      [] k = "activity" -> [str |-> <<"y">>]
      [] k = "type" -> [str |-> <<"t">>]
      [] k = "activity_type" -> [str |-> <<"u">>]
      [] OTHER -> 2

\* every order of every choice of n keys
KeyOrders(n) ==
    {s \in [1..n -> ItemKeys] : \A i, j \in 1..n : i # j => s[i] # s[j]}

\* the objects of at most MaxItems items
ResponseObjects ==
    { [dict |-> [i \in DOMAIN ks |-> <<ks[i], ItemValue(ks[i])>>]] :
        ks \in UNION {KeyOrders(n) : n \in 0..MaxItems} }

\* what core_fetch_json_from_api may hand on: null, a string, an object
ResponseData ==
    {None, [str |-> <<>>], [str |-> <<"s">>]} \cup ResponseObjects

PrimaryKeys == {"fact", "activity_type"}

\* isinstance(response_data, dict)
IsDict(v) == "dict" \in DOMAIN v

\* bool(v)
Truthy(v) ==
    \/ "str" \in DOMAIN v /\ v.str # <<>>
    \/ "dict" \in DOMAIN v /\ v.dict # <<>>

\* d.get(k)
DictGetOrNone(d, k) == IF HasKey(d, k) THEN DictGet(d, k) ELSE None

\* f"Primary key '{primary_key}' not found in response."
NotFoundMessage(primary_key) ==
    <<"Primary key '", primary_key, "' not found in response.">>

\* line 51: the first three items
Snippet(items) ==
    [dict |-> SubSeq(items, 1, IF Len(items) < 3 THEN Len(items) ELSE 3)]

\* lines 44-48: the companion fields
Companions(parsed_result, items) ==
    IF HasKey(items, "length")
    THEN Update(parsed_result, [length |-> DictGet(items, "length")])
    ELSE IF HasKey(items, "activity")
    THEN Update(parsed_result,
                [activity_type |-> DictGetOrNone(items, "type"),
                 participants |-> DictGetOrNone(items, "participants")])
    ELSE parsed_result

core_parse_api_response_for_demo(response_data, primary_key) ==
    IF ~Truthy(response_data) \/ ~IsDict(response_data) THEN None
    ELSE IF HasKey(response_data.dict, primary_key)
    THEN Companions(Update([data_retrieved |-> TRUE],
                           primary_key :> DictGet(response_data.dict, primary_key)),
                    response_data.dict)
    ELSE Update([data_retrieved |-> TRUE],
                [message |-> NotFoundMessage(primary_key),
                 response_snippet |-> Snippet(response_data.dict)])

ExtractCalls ==
    [fn : {"core_parse_api_response_for_demo"},
     response_data : ResponseData,
     primary_key : PrimaryKeys,
     outcome : {"called"},
     result : {None}]

InitExtract == Quiescent /\ call \in ExtractCalls

\* the call runs to its return statement
Extract ==
    /\ call.outcome = "called"
    /\ call' = [call EXCEPT
                   !.outcome = "returned",
                   !.result = core_parse_api_response_for_demo(call.response_data,
                                                               call.primary_key)]
    /\ UNCHANGED pipeline

NextExtract == Extract

SpecExtract == InitExtract /\ [][NextExtract]_vars

(***************************************************************************)
(* Vocabulary of the properties of the response parser.                    *)
(***************************************************************************)
Extracted == call.outcome = "returned"

\* the items of the response, none when it is no object
ItemsOf(response_data) ==
    IF IsDict(response_data) THEN response_data.dict ELSE <<>>

\* snippet holds at most three items, each an item of the response
BoundedSubMap(snippet, items) ==
    /\ IsDict(snippet)
    /\ Len(snippet.dict) <= 3
    /\ Range(snippet.dict) \subseteq Range(items)

\* C22: the parser returns a record, never null, for every response object,
\* the empty one included: with the primary key present the record maps it
\* to the response's value for it, otherwise the record carries a message
\* and a snippet, a sub-map of the response of at most three entries.
C22_ExtractAlwaysReturnsRecord ==
    Extracted /\ IsDict(call.response_data) =>
       /\ call.result # None
       /\ IF HasKey(ItemsOf(call.response_data), call.primary_key)
          THEN /\ call.primary_key \in DOMAIN call.result
               /\ call.result[call.primary_key]
                     = DictGet(ItemsOf(call.response_data), call.primary_key)
          ELSE /\ "message" \in DOMAIN call.result
               /\ "response_snippet" \in DOMAIN call.result
               /\ BoundedSubMap(call.result.response_snippet,
                                ItemsOf(call.response_data))

(***************************************************************************)
(* flows/.../scheduled_file_downloads: the flow that acquires the files of *)
(* its configuration one after the other, and download_file_task.  The     *)
(* state of the running flow is held in call.                              *)
(***************************************************************************)
\* the most files of a configuration
MaxFiles == 3

FileUrl == Https \o <<":", "/", "/", "h", "/", "a", "-", "b">>

OtherFileUrl == Https \o <<":", "/", "/", "h", "/", "c">>

\* file_config: without 'url', with an empty 'url', with both keys, without 'name'
FileConfigs ==
    { [name |-> "a"],
      [name |-> "b", url |-> <<>>],
      [name |-> "c", url |-> FileUrl],
      [url |-> OtherFileUrl] }

\* config: absent, or with the list under 'files_to_acquire'
FlowConfigs ==
    {None} \cup
    { [files_to_acquire |-> files] :
        files \in UNION {[1..n -> FileConfigs] : n \in 0..MaxFiles} }

\* the status core_process_scheduled_file_download returns
CoreStatuses == {"SUCCESS", "FAILED_DOWNLOAD", "FAILED_HASHING", "FAILED_STORAGE"}

\* what the call of the core function does: a status, or an exception
CoreOutcomes == CoreStatuses \cup {"raised"}

\* config.get("data_source_name", "project_alpha_demo_files")
DefaultDataSourceName == "project_alpha_demo_files"

\* file_config.get("name", "Unnamed File")
file_name_display(file_config) ==
    IF "name" \in DOMAIN file_config THEN file_config.name ELSE "Unnamed File"

\* file_config.get("url")
file_url(file_config) ==
    IF "url" \in DOMAIN file_config THEN file_config.url ELSE None

\* download_file_task: the result of the core function, or the dictionary
\* of lines 40-45 when it raised
download_file_task(url, data_source_name, core) ==
    IF core = "raised"
    THEN [status |-> "TASK_EXCEPTION", url |-> url,
          data_source_name |-> data_source_name, error_message |-> "str(e)"]
    ELSE [status |-> core, url |-> url, data_source_name |-> data_source_name]

\* lines 71-74: the entry of a file without URL
Skipped(file_config) ==
    [file_name |-> file_name_display(file_config), status |-> "SKIPPED",
     reason |-> "Missing URL"]

\* lines 106-108 without the handler: the exception leaves the flow
Uncaught(flow, file_config) ==
    [flow EXCEPT !.outcome = "raised"]

\* lines 106-108: the handler of the exceptions of the try block
Caught(flow, file_config) ==
    [flow EXCEPT
        !.file_results =
            Append(@, [file_name |-> file_name_display(file_config),
                       url |-> file_url(file_config),
                       status |-> "ERROR", reason |-> "str(e)"]),
        !.handled = Append(@, flow.next),
        !.next = @ + 1]

\* lines 89-104: the branch on the result of the task
Processed(flow, processing_result) ==
    IF processing_result.status = "SUCCESS"
    THEN [flow EXCEPT
             !.file_results = Append(@, processing_result),
             !.artifact_tasks_to_wait = Append(@, processing_result),
             !.handled = Append(@, flow.next),
             !.next = @ + 1]
    ELSE [flow EXCEPT
             !.file_results = Append(@, processing_result),
             !.handled = Append(@, flow.next),
             !.next = @ + 1]

FlowCalls ==
    [fn : {"ingest_scheduled_file_downloads_flow_dept_project_alpha"},
     config : FlowConfigs,
     outcome : {"called"},
     next : {1},
     file_results : {<<>>},
     artifact_tasks_to_wait : {<<>>},
     handled : {<<>>},
     artifacts : {<<>>},
     result : {None}]

InitFlow == Quiescent /\ call \in FlowCalls

\* lines 41-43: no configuration
FlowRefused ==
    /\ call.outcome = "called"
    /\ call.config = None
    /\ call' = [call EXCEPT
                   !.outcome = "returned",
                   !.result = [status |-> "FAILED", reason |-> "Missing configuration"]]
    /\ UNCHANGED pipeline

\* lines 46-55: an empty list
FlowEmpty ==
    /\ call.outcome = "called"
    /\ call.config # None
    /\ call.config.files_to_acquire = <<>>
    /\ call' = [call EXCEPT
                   !.outcome = "returned",
                   !.result = [status |-> "COMPLETED",
                               message |-> "No files configured to acquire"]]
    /\ UNCHANGED pipeline

\* lines 57-64: the loop is entered
FlowEnter ==
    /\ call.outcome = "called"
    /\ call.config # None
    /\ call.config.files_to_acquire # <<>>
    /\ call' = [call EXCEPT !.outcome = "looping"]
    /\ UNCHANGED pipeline

\* lines 67-74: the next file has no URL
FlowSkip ==
    /\ call.outcome = "looping"
    /\ call.next <= Len(call.config.files_to_acquire)
    /\ file_url(call.config.files_to_acquire[call.next]) = <<>>
    /\ call' = [call EXCEPT
                   !.file_results =
                       Append(@, Skipped(call.config.files_to_acquire[call.next])),
                   !.handled = Append(@, call.next),
                   !.next = @ + 1]
    /\ UNCHANGED pipeline

\* lines 76-108: the next file is acquired; the task run ends by its return
\* value or, when the engine fails it, by an exception
FlowProcess ==
    /\ call.outcome = "looping"
    /\ call.next <= Len(call.config.files_to_acquire)
    /\ file_url(call.config.files_to_acquire[call.next]) # <<>>
    /\ \E core \in CoreOutcomes, engine_ok \in BOOLEAN :
          call' = IF engine_ok
                  THEN Processed(call,
                           download_file_task(
                               file_url(call.config.files_to_acquire[call.next]),
                               DefaultDataSourceName, core))
                  ELSE Caught(call, call.config.files_to_acquire[call.next])
    /\ UNCHANGED pipeline

\* lines 110-121: the artifact tasks are awaited, their exceptions kept by
\* gather, and the summary is returned
FlowFinish ==
    /\ call.outcome = "looping"
    /\ call.next > Len(call.config.files_to_acquire)
    /\ \E raises \in [DOMAIN call.artifact_tasks_to_wait -> BOOLEAN] :
          call' = [call EXCEPT
                      !.outcome = "returned",
                      !.artifacts = [i \in DOMAIN raises |->
                                        IF raises[i] THEN "exception" ELSE "created"],
                      !.result = [status |-> "COMPLETED",
                                  processed_files |-> call.file_results]]
    /\ UNCHANGED pipeline

NextFlow ==
    \/ FlowRefused
    \/ FlowEmpty
    \/ FlowEnter
    \/ FlowSkip
    \/ FlowProcess
    \/ FlowFinish

SpecFlow == InitFlow /\ [][NextFlow]_vars

(***************************************************************************)
(* Vocabulary of the properties of the flow.                               *)
(***************************************************************************)
FlowReturned == call.outcome = "returned"

\* the configured files, none without a configuration
ConfiguredFiles ==
    IF call.config = None THEN <<>> ELSE call.config.files_to_acquire

\* processed_files of the summary, empty when the summary has none
ProcessedFiles ==
    IF "processed_files" \in DOMAIN call.result
    THEN call.result.processed_files
    ELSE <<>>

\* entry is what the flow records for file_config
EntryOf(file_config, entry) ==
    IF file_url(file_config) = <<>>
    THEN /\ entry.status = "SKIPPED"
         /\ entry.file_name = file_name_display(file_config)
    ELSE /\ entry.url = file_url(file_config)
         /\ entry.status \in CoreStatuses \cup {"TASK_EXCEPTION", "ERROR"}

\* C23: whatever the files and their outcomes (missing URL, failure status,
\* raised exception, success), the flow handles the files in list order,
\* records exactly one entry for each, and neither raises nor returns
\* before the last file is handled.
C23_EveryFileOneEntryInOrder ==
    /\ call.outcome # "raised"
    /\ call.handled = [i \in 1..(call.next - 1) |-> i]
    /\ Len(call.file_results) = Len(call.handled)
    /\ \A i \in DOMAIN call.file_results :
          EntryOf(ConfiguredFiles[i], call.file_results[i])
    /\ FlowReturned =>
          /\ Len(call.handled) = Len(ConfiguredFiles)
          /\ Len(ProcessedFiles) = Len(ConfiguredFiles)
          /\ \A i \in DOMAIN ProcessedFiles :
                EntryOf(ConfiguredFiles[i], ProcessedFiles[i])

\* a failed first file, an exception for the second and a success for the third
C23_Witness ==
    /\ FlowReturned
    /\ Len(ConfiguredFiles) = 3
    /\ ProcessedFiles[1].status = "FAILED_DOWNLOAD"
    /\ ProcessedFiles[2].status = "ERROR"
    /\ ProcessedFiles[3].status = "SUCCESS"
    /\ ProcessedFiles[3].url = FileUrl

(***************************************************************************)
(* scripts/generators/add_department.py: the deployments added to          *)
(* prefect.local.yaml.  A YAML file is the sequence of the <<key, node>>   *)
(* members of its top-level mapping, None when the file is empty; a node   *)
(* is [scalar |-> text], [items |-> nodes] or [members |-> pairs].  The    *)
(* loaded values are None, [str |-> s], [list |-> values] and              *)
(* [dict |-> items].                                                       *)
(***************************************************************************)
\* the most runs of the generator
MaxRuns == 2

\* STAGES
STAGES ==
    << <<"i", "n", "g", "e", "s", "t", "i", "o", "n">>,
       <<"p", "r", "o", "c", "e", "s", "s", "i", "n", "g">>,
       <<"a", "n", "a", "l", "y", "s", "i", "s">> >>

\* str.upper of the letters that begin a stage
Upper(c) ==
    CASE c = "i" -> "I"
      [] c = "p" -> "P"
      [] c = "a" -> "A"
      [] OTHER -> c

\* str.capitalize of a lowercase word
capitalize(s) == IF s = <<>> THEN s ELSE <<Upper(Head(s))>> \o Tail(s)

DeptPrefix == <<"d", "e", "p", "t", "_">>

\* the answers to the two prompts of main
DeptInputs ==
    { [full_dept_name |-> <<"A">>, dept_identifier |-> DeptPrefix \o <<"a">>],
      [full_dept_name |-> <<"B">>, dept_identifier |-> DeptPrefix \o <<"b">>],
      [full_dept_name |-> <<"A">>, dept_identifier |-> DeptPrefix \o <<"x">>] }

\* f"{stage.capitalize()} Deployment ({full_dept_name})"
deployment_name(full_dept_name, stage) ==
    capitalize(stage) \o <<" ", "D", "e", "p", "l", "o", "y", "m", "e", "n", "t", " ", "(">>
    \o full_dept_name \o <<")">>

\* f"flows/{dept_identifier}/{stage}_flow_{dept_identifier}.py:..."
entrypoint(dept_identifier, stage) ==
    <<"f", "l", "o", "w", "s", "/">> \o dept_identifier \o <<"/">> \o stage
    \o <<"_", "f", "l", "o", "w", "_">> \o dept_identifier

\* the name, version and entrypoint of the deployment entry
generate_deployment_dict(full_dept_name, dept_identifier, stage) ==
    [dict |-> << <<"name", [str |-> deployment_name(full_dept_name, stage)]>>,
                 <<"version", None>>,
                 <<"entrypoint", [str |-> entrypoint(dept_identifier, stage)]>> >>]

\* main, lines 391-407
deployments_to_add(inputs) ==
    [i \in DOMAIN STAGES |->
        generate_deployment_dict(inputs.full_dept_name, inputs.dept_identifier,
                                 STAGES[i])]

\* yaml.safe_load of a scalar: null is None, anything else a string
LoadScalar(text) == IF text = JsonNull THEN None ELSE [str |-> text]

\* yaml.dump of None or a string
DumpScalar(value) == IF value = None THEN JsonNull ELSE value.str

\* yaml.safe_load of an item of a list: a mapping of scalars, or a scalar
LoadItem(node) ==
    IF "members" \in DOMAIN node
    THEN [dict |-> [i \in DOMAIN node.members |->
                       <<node.members[i][1], LoadScalar(node.members[i][2])>>]]
    ELSE LoadScalar(node.scalar)

DumpItem(value) ==
    IF value # None /\ "dict" \in DOMAIN value
    THEN [members |-> [i \in DOMAIN value.dict |->
                          <<value.dict[i][1], DumpScalar(value.dict[i][2])>>]]
    ELSE [scalar |-> DumpScalar(value)]

\* yaml.safe_load of the value of a top-level key
LoadNode(node) ==
    IF "items" \in DOMAIN node
    THEN [list |-> [i \in DOMAIN node.items |-> LoadItem(node.items[i])]]
    ELSE LoadScalar(node.scalar)

DumpNode(value) ==
    IF value # None /\ "list" \in DOMAIN value
    THEN [items |-> [i \in DOMAIN value.list |-> DumpItem(value.list[i])]]
    ELSE [scalar |-> DumpScalar(value)]

\* yaml.safe_load(f) or {}
yaml_safe_load(doc) ==
    [i \in DOMAIN doc |-> <<doc[i][1], LoadNode(doc[i][2])>>]

\* yaml.dump(data, f, sort_keys=False)
yaml_dump(data) ==
    [i \in DOMAIN data |-> <<data[i][1], DumpNode(data[i][2])>>]


\* data[key] = value: in place when the key is there, at the end otherwise
SetItem(data, key, value) ==
    IF HasKey(data, key)
    THEN [i \in DOMAIN data |-> IF data[i][1] = key THEN <<key, value>> ELSE data[i]]
    ELSE Append(data, <<key, value>>)

\* lines 295-296: data with a list under 'deployments' when it had none
WithDeployments(data) ==
    IF ~HasKey(data, "deployments") \/ DictGet(data, "deployments") = None
    THEN SetItem(data, "deployments", [list |-> <<>>])
    ELSE data

\* d.get('name') of an entry that is a dict, None otherwise
NameOf(d) ==
    IF IsDict(d) /\ HasKey(d.dict, "name") THEN DictGet(d.dict, "name") ELSE None

\* line 302
existing_names(deployments) ==
    {NameOf(deployments[i]) : i \in {j \in DOMAIN deployments : Truthy(NameOf(deployments[j]))}}

\* the loop of lines 305-312 without the test of line 307
AppendedAll(deployments, new_deployments) ==
    new_deployments

\* lines 305-312: the new deployments that are appended
Appended(deployments, new_deployments) ==
    SelectSeq(new_deployments,
              LAMBDA new_dep : NameOf(new_dep) \notin existing_names(deployments))

\* lines 314-323: the file after the save; io is the step that fails, if any
Saved(file, data, added, io) ==
    IF added = <<>> \/ io = "open" THEN file
    ELSE IF io = "write" THEN [exists |-> TRUE, doc |-> <<>>]
    ELSE [exists |-> TRUE,
          doc |-> yaml_dump(SetItem(data, "deployments",
                                    [list |-> DictGet(data, "deployments").list \o added]))]

\* lines 298-323, for data that has a value under 'deployments'
AddTo(file, data, new_deployments, io) ==
    IF ~("list" \in DOMAIN DictGet(data, "deployments")) THEN file
    ELSE Saved(file, data,
               Appended(DictGet(data, "deployments").list, new_deployments), io)

\* the file after add_deployments_to_yaml(yaml_path, new_deployments)
add_deployments_to_yaml(file, new_deployments, io) ==
    IF ~file.exists THEN file
    ELSE AddTo(file, WithDeployments(yaml_safe_load(file.doc)), new_deployments, io)

\* a deployment someone wrote by hand under a name the generator uses
HandWritten ==
    [members |-> << <<"name", deployment_name(<<"A">>, STAGES[1])>>,
                    <<"entrypoint", <<"e">>>> >>]

\* prefect.local.yaml before the first run
YamlFiles ==
    { [exists |-> FALSE, doc |-> <<>>],
      [exists |-> TRUE, doc |-> <<>>],
      [exists |-> TRUE, doc |-> << <<"name", [scalar |-> <<"p">>]>> >>],
      [exists |-> TRUE, doc |-> << <<"deployments", [scalar |-> JsonNull]>> >>],
      [exists |-> TRUE, doc |-> << <<"deployments", [scalar |-> <<"x">>]>> >>],
      [exists |-> TRUE, doc |-> << <<"deployments", [items |-> <<>>]>> >>],
      [exists |-> TRUE, doc |-> << <<"deployments", [items |-> <<HandWritten>>]>> >>],
      [exists |-> TRUE,
       doc |-> << <<"deployments",
                    [items |-> << [scalar |-> <<"s">>],
                                  [members |-> << <<"entrypoint", <<"e">>>> >>],
                                  HandWritten, HandWritten >>]>> >>] }

\* the step of the save that raises
YamlFaults == {"none", "open", "write"}

DeployCalls ==
    [fn : {"add_deployments_to_yaml"},
     yaml : YamlFiles,
     runs : {<<>>}]

InitDeploy == Quiescent /\ call \in DeployCalls

\* main, lines 391-415: one run of the generator as far as the deployment
\* file goes
AddDepartment ==
    /\ Len(call.runs) < MaxRuns
    /\ \E inputs \in DeptInputs, add_deps \in BOOLEAN, io \in YamlFaults :
          call' = [call EXCEPT
                      !.yaml = IF add_deps
                               THEN add_deployments_to_yaml(
                                        call.yaml, deployments_to_add(inputs), io)
                               ELSE call.yaml,
                      !.runs = Append(@, [inputs |-> inputs, add_deps |-> add_deps,
                                          io |-> io, before |-> call.yaml])]
    /\ UNCHANGED pipeline

NextDeploy == AddDepartment

SpecDeploy == InitDeploy /\ [][NextDeploy]_vars

(***************************************************************************)
(* Vocabulary of the properties of the deployment file.                    *)
(***************************************************************************)
\* the entries under 'deployments' of a file, none when there is no list
DeploymentsIn(file) ==
    IF /\ file.exists
       /\ HasKey(yaml_safe_load(file.doc), "deployments")
       /\ "list" \in DOMAIN DictGet(yaml_safe_load(file.doc), "deployments")
    THEN DictGet(yaml_safe_load(file.doc), "deployments").list
    ELSE <<>>

\* how many entries of the file have the name
NameCount(file, name) ==
    Cardinality({i \in DOMAIN DeploymentsIn(file) : NameOf(DeploymentsIn(file)[i]) = name})

\* the file as run i found it and as it left it
YamlBefore(i) == call.runs[i].before

YamlAfter(i) == IF i < Len(call.runs) THEN call.runs[i + 1].before ELSE call.yaml

\* the names of the deployments run i asks for
NamesOfRun(i) ==
    {NameOf(deployments_to_add(call.runs[i].inputs)[k]) : k \in DOMAIN STAGES}

\* run i + 1 repeats run i: the same answers, the same fate of the save
Repeated(i) ==
    /\ i + 1 \in DOMAIN call.runs
    /\ call.runs[i + 1].inputs = call.runs[i].inputs
    /\ call.runs[i + 1].add_deps = call.runs[i].add_deps
    /\ call.runs[i + 1].io = call.runs[i].io

\* C24: a run of add_department that repeats the run before it leaves the
\* number of deployments of prefect.local.yaml unchanged; no run appends a
\* deployment under a name the file already has; and no run leaves two
\* entries under a name the generator uses, unless the file had them before
\* the first run.
C24_DeploymentsAddedOnce ==
    /\ \A i \in DOMAIN call.runs :
          Repeated(i) =>
             Len(DeploymentsIn(YamlAfter(i + 1))) = Len(DeploymentsIn(YamlBefore(i + 1)))
    /\ \A i \in DOMAIN call.runs :
          \A name \in existing_names(DeploymentsIn(YamlBefore(i))) :
             NameCount(YamlAfter(i), name) <= NameCount(YamlBefore(i), name)
    /\ \A i \in DOMAIN call.runs :
          \A name \in NamesOfRun(i) :
             \/ NameCount(call.yaml, name) <= 1
             \/ NameCount(call.yaml, name) <= NameCount(YamlBefore(1), name)

\* two runs for department A on a file that had one of its three names
C24_Witness ==
    /\ Len(call.runs) = 2
    /\ Repeated(1)
    /\ call.runs[1].add_deps
    /\ call.runs[1].io = "none"
    /\ DeploymentsIn(YamlBefore(1)) = <<LoadItem(HandWritten)>>
    /\ Len(DeploymentsIn(YamlAfter(1))) = 3
    /\ Len(DeploymentsIn(call.yaml)) = 3

(***************************************************************************)
(* scripts/generators/add_task.py and add_category.py: the files the two   *)
(* scripts create.  The project tree is the set of its directories and a   *)
(* function from the paths of its files to what was written and how often. *)
(***************************************************************************)
\* the most runs of the two generators
MaxGenRuns == 2

FLOWS_DIR == << <<"f", "l", "o", "w", "s">> >>

CONFIGS_DIR == << <<"c", "o", "n", "f", "i", "g", "s">>, <<"v", "a", "r", "i", "a", "b", "l", "e", "s">> >>

DeptA == <<"d", "e", "p", "t", "_", "a">>

Tasks == <<"t", "a", "s", "k", "s">>

InitPy == <<"_", "_", "i", "n", "i", "t", "_", "_", ".", "p", "y">>

CreateNewCategory == <<"[", "C", "r", "e", "a", "t", "e", " ", "N", "e", "w", " ", "C", "a", "t", "e", "g", "o", "r", "y", "]">>

PlaceAtStageLevel == <<"[", "N", "o", "n", "e", " ", "-", " ", "P", "l", "a", "c", "e", " ", "a", "t", " ", "S", "t", "a", "g", "e", " ", "L", "e", "v", "e", "l", " ", "i", "n", "s", "t", "e", "a", "d", "]">>

\* str.lower of the capitals of the action verbs
Lower(c) ==
    CASE c = "I" -> "i"
      [] c = "P" -> "p"
      [] c = "A" -> "a"
      [] OTHER -> c

lower(s) == [i \in DOMAIN s |-> Lower(s[i])]

\* s4 of sanitize_identifier for a name without capitals, which lower() and
\* the two substitutions of s1 and s2 leave as it is
SnakeCase(name) ==
    Strip(SubRuns(SelectSeq(SubRuns(name, {" ", "-", "/", "\\", "&"}, <<"_">>),
                            LAMBDA c : c \in WordChars),
                  {"_"}, <<"_">>),
          {"_"})

endswith(s, suffix) ==
    Len(s) >= Len(suffix) /\ SubSeq(s, Len(s) - Len(suffix) + 1, Len(s)) = suffix

\* add_task.py: sanitize_identifier(name, suffix)
sanitize_identifier(name, suffix) ==
    IF SnakeCase(name) = <<>>
    THEN IF endswith(<<"d", "e", "f", "a", "u", "l", "t">>, suffix) THEN <<"d", "e", "f", "a", "u", "l", "t">> ELSE <<"d", "e", "f", "a", "u", "l", "t">> \o suffix
    ELSE IF endswith(SnakeCase(name), suffix) THEN SnakeCase(name)
    ELSE SnakeCase(name) \o suffix

\* add_category.py: sanitize_identifier(name)
sanitize_category(name) ==
    IF SnakeCase(name) = <<>> THEN <<"d", "e", "f", "a", "u", "l", "t", "_", "c", "a", "t", "e", "g", "o", "r", "y">> ELSE SnakeCase(name)

\* the names of the directories right under dir
Subdirs(dirs, dir) ==
    {d[Len(d)] : d \in {e \in dirs : Len(e) = Len(dir) + 1 /\ SubSeq(e, 1, Len(dir)) = dir}}

\* add_task.py: get_existing_categories
TaskCategories(dirs, dept_identifier, stage) ==
    sorted({name \in Subdirs(dirs, FLOWS_DIR \o <<dept_identifier, stage>>) :
               /\ ~startswith(name, <<".">>)
               /\ ~startswith(name, <<"_", "_">>)
               /\ name # Tasks})

\* add_category.py: get_existing_stages
ExistingStages(dirs, dept_identifier) ==
    sorted(Subdirs(dirs, FLOWS_DIR \o <<dept_identifier>>) \cap Range(STAGES))

\* prompt_choice: the option of the number entered
prompt_choice(options, choice) == options[choice]

\* Path.exists()
Exists(tree, path) == path \in tree.dirs \/ path \in DOMAIN tree.files

\* create_directory
create_directory(tree, dir_path) ==
    IF Exists(tree, dir_path) THEN tree
    ELSE [tree EXCEPT !.dirs = @ \cup WithParents(dir_path)]

\* create_file without the test of line 144: the file is written again
create_file_overwriting(tree, file_path, content) ==
    [files |-> (file_path :> [content |-> content,
                              writes |-> IF file_path \in DOMAIN tree.files
                                         THEN tree.files[file_path].writes + 1
                                         ELSE 1]) @@ tree.files,
     dirs |-> tree.dirs \cup WithParents(SubSeq(file_path, 1, Len(file_path) - 1)),
     created |-> tree.created \cup {file_path},
     skipped |-> tree.skipped]

\* create_file: the tree, with the paths reported 'Created File' and
\* 'Exists ... (Skipping)'
create_file(tree, file_path, content) ==
    IF Exists(tree, file_path)
    THEN [tree EXCEPT !.skipped = @ \cup {file_path}]
    ELSE [files |-> (file_path :> [content |-> content, writes |-> 1]) @@ tree.files,
          dirs |-> tree.dirs \cup WithParents(SubSeq(file_path, 1, Len(file_path) - 1)),
          created |-> tree.created \cup {file_path},
          skipped |-> tree.skipped]


\* get_task_wrapper_content: what the placeholder depends on
get_task_wrapper_content(task_name_desc, task_func_name, full_file_path, dept_identifier, stage, category_identifier) ==
    [kind |-> "task", name |-> task_name_desc, func |-> task_func_name,
     path |-> full_file_path, dept |-> dept_identifier, stage |-> stage,
     category |-> category_identifier]

\* get_task_config_content
get_task_config_content(task_name_desc, task_func_name, full_config_path, dept_identifier, stage, category_identifier) ==
    [kind |-> "task_config", name |-> task_name_desc, func |-> task_func_name,
     path |-> full_config_path, dept |-> dept_identifier, stage |-> stage,
     category |-> category_identifier]

\* get_category_flow_content
get_category_flow_content(action_verb, category_name, category_identifier, dept_identifier, stage) ==
    [kind |-> "flow", name |-> category_name, func |-> action_verb,
     path |-> <<>>, dept |-> dept_identifier, stage |-> stage,
     category |-> category_identifier]

\* get_category_config_content
get_category_config_content(action_verb, category_name, category_identifier, dept_identifier, stage) ==
    [kind |-> "flow_config", name |-> category_name, func |-> action_verb,
     path |-> <<>>, dept |-> dept_identifier, stage |-> stage,
     category |-> category_identifier]

\* the empty file of a package
EmptyContent ==
    [kind |-> "empty", name |-> <<>>, func |-> <<>>, path |-> <<>>,
     dept |-> <<>>, stage |-> <<>>, category |-> <<>>]

\* a file somebody wrote by hand before the generators ran
HandContent ==
    [kind |-> "hand", name |-> <<>>, func |-> <<>>, path |-> <<>>,
     dept |-> <<>>, stage |-> <<>>, category |-> <<>>]

\* the create_file calls of a run, in order, the failing-th of which cannot
\* write (0: none): IOError, sys.exit(1)
RECURSIVE CreateFiles(_, _, _, _)
CreateFiles(tree, requests, i, failing) ==
    IF i > Len(requests) THEN tree
    ELSE IF i = failing /\ ~Exists(tree, requests[i].path)
    THEN create_directory(tree, SubSeq(requests[i].path, 1, Len(requests[i].path) - 1))
    ELSE CreateFiles(create_file(tree, requests[i].path, requests[i].content),
                     requests, i + 1, failing)

\* the tree a run starts from
StartOf(c) == [dirs |-> c.dirs, files |-> c.files, created |-> {}, skipped |-> {}]

\* add_task.py main, lines 311-340: the category of the answers
CategoryOf(dirs, dept_identifier, stage, is_cat_specific, choice, new_category_name) ==
    IF ~is_cat_specific THEN None
    ELSE IF prompt_choice(TaskCategories(dirs, dept_identifier, stage)
                          \o <<CreateNewCategory, PlaceAtStageLevel>>, choice)
            = CreateNewCategory
    THEN sanitize_identifier(new_category_name, <<>>)
    ELSE IF prompt_choice(TaskCategories(dirs, dept_identifier, stage)
                          \o <<CreateNewCategory, PlaceAtStageLevel>>, choice)
            = PlaceAtStageLevel
    THEN None
    ELSE prompt_choice(TaskCategories(dirs, dept_identifier, stage)
                       \o <<CreateNewCategory, PlaceAtStageLevel>>, choice)

\* add_task.py main, lines 349-358
TargetBase(root, dept_identifier, stage, category_identifier) ==
    IF category_identifier # None
    THEN root \o <<dept_identifier, stage, category_identifier>>
    ELSE root \o <<dept_identifier, stage>>

\* add_task.py main, lines 343-391: the four files of a task
TaskRequests(task_name_desc, task_func_name, dept_identifier, stage, category_identifier) ==
    << [path |-> TargetBase(FLOWS_DIR, dept_identifier, stage, category_identifier)
                 \o <<Tasks, sanitize_identifier(task_name_desc, <<>>)
                             \o <<"_", "t", "a", "s", "k", "_">> \o dept_identifier \o <<".", "p", "y">>>>,
        content |-> get_task_wrapper_content(
                        task_name_desc, task_func_name,
                        TargetBase(FLOWS_DIR, dept_identifier, stage, category_identifier)
                        \o <<Tasks, sanitize_identifier(task_name_desc, <<>>)
                                    \o <<"_", "t", "a", "s", "k", "_">> \o dept_identifier \o <<".", "p", "y">>>>,
                        dept_identifier, category_identifier, stage)],
       [path |-> TargetBase(FLOWS_DIR, dept_identifier, stage, category_identifier)
                 \o <<Tasks, InitPy>>,
        content |-> EmptyContent],
       [path |-> TargetBase(CONFIGS_DIR, dept_identifier, stage, category_identifier)
                 \o <<Tasks, sanitize_identifier(task_name_desc, <<>>)
                             \o <<"_", "t", "a", "s", "k", "_", "c", "o", "n", "f", "i", "g", "_">> \o dept_identifier \o <<".", "y", "a", "m", "l">>>>,
        content |-> get_task_config_content(
                        task_name_desc, task_func_name,
                        TargetBase(CONFIGS_DIR, dept_identifier, stage, category_identifier)
                        \o <<Tasks, sanitize_identifier(task_name_desc, <<>>)
                                    \o <<"_", "t", "a", "s", "k", "_", "c", "o", "n", "f", "i", "g", "_">> \o dept_identifier \o <<".", "y", "a", "m", "l">>>>,
                        dept_identifier, stage, category_identifier)],
       [path |-> TargetBase(CONFIGS_DIR, dept_identifier, stage, category_identifier)
                 \o <<Tasks, InitPy>>,
        content |-> EmptyContent] >>

\* add_category.py main, lines 361-367
default_action(stage) == IF stage # STAGES[1] THEN capitalize(stage) ELSE <<"I", "n", "g", "e", "s", "t">>

\* add_category.py main, lines 376-398: the three files of a category
CategoryRequests(action_verb, category_name, dept_identifier, stage) ==
    << [path |-> FLOWS_DIR \o <<dept_identifier, stage, sanitize_category(category_name), InitPy>>,
        content |-> EmptyContent],
       [path |-> FLOWS_DIR \o <<dept_identifier, stage, sanitize_category(category_name),
                                lower(action_verb) \o <<"_">> \o sanitize_category(category_name)
                                \o <<"_", "f", "l", "o", "w", "_">> \o dept_identifier \o <<".", "p", "y">>>>,
        content |-> get_category_flow_content(action_verb, category_name,
                        sanitize_category(category_name), dept_identifier, stage)],
       [path |-> CONFIGS_DIR \o <<dept_identifier, stage, sanitize_category(category_name),
                                  lower(action_verb) \o <<"_">> \o sanitize_category(category_name)
                                  \o <<"_", "c", "o", "n", "f", "i", "g", "_">> \o dept_identifier \o <<".", "y", "a", "m", "l">>>>,
        content |-> get_category_config_content(action_verb, category_name,
                        sanitize_category(category_name), dept_identifier, stage)] >>


(***************************************************************************)
(* The runs of the two generators on one project tree.                     *)
(***************************************************************************)
TaskName == <<"t", " ", "x">>

Ingestion == STAGES[1]

Processing == STAGES[2]

\* the stage directories add_department.py makes for a department
StageDirs ==
    WithParents(FLOWS_DIR \o <<DeptA, Ingestion>>) \cup WithParents(FLOWS_DIR \o <<DeptA, Processing>>)

\* a category that is there before the first run
OldCategoryDir == FLOWS_DIR \o <<DeptA, Ingestion, <<"m">>>>

\* a package file somebody wrote where add_task puts its own
OldInitPy == FLOWS_DIR \o <<DeptA, Ingestion, Tasks, InitPy>>

\* the project trees the runs start from
GenCalls ==
    { [fn |-> "generators",
       dirs |-> StageDirs \cup (IF old_category THEN {OldCategoryDir} ELSE {})
                \cup (IF old_file THEN WithParents(SubSeq(OldInitPy, 1, Len(OldInitPy) - 1)) ELSE {}),
       files |-> IF old_file
                 THEN (OldInitPy :> [content |-> HandContent, writes |-> 1])
                      @@ (FLOWS_DIR \o <<InitPy>> :> [content |-> HandContent, writes |-> 1])
                 ELSE (FLOWS_DIR \o <<InitPy>> :> [content |-> HandContent, writes |-> 1]),
       runs |-> <<>>] : old_category \in BOOLEAN, old_file \in BOOLEAN }

\* the answers typed at the prompts
StageChoices == 1..2

CategoryChoices == 1..3

CategoryNames == { <<"k">>, <<"m", " ", "x">> }

\* Enter alone takes the default verb of the stage
ActionVerbs == { <<>> }

ProceedAnswers == { <<"n", "o">>, <<"y", "e", "s">> }

\* the create_file call that cannot write, 0 for none
Failings == {0, 2}

InitGen == Quiescent /\ call \in GenCalls

\* what a run leaves in the state
Ran(script, inputs, target, tree) ==
    [call EXCEPT !.dirs = tree.dirs,
                 !.files = tree.files,
                 !.runs = Append(@, [script |-> script, inputs |-> inputs,
                                     target |-> target, before |-> call.files,
                                     created |-> tree.created,
                                     skipped |-> tree.skipped])]

\* add_task.py: main with the one department dept_a
AddTask ==
    /\ call.fn = "generators"
    /\ Len(call.runs) < MaxGenRuns
    /\ \E stage_choice \in StageChoices, is_cat_specific \in BOOLEAN,
          choice \in CategoryChoices, failing \in Failings :
          /\ is_cat_specific
                => choice <= Len(TaskCategories(call.dirs, DeptA,
                                                prompt_choice(STAGES, stage_choice))) + 2
          /\ ~is_cat_specific => choice = 1
          /\ call' = Ran("add_task",
                         [stage |-> stage_choice, is_cat_specific |-> is_cat_specific,
                          choice |-> choice, name |-> <<"k">>, proceed |-> <<>>, verb |-> <<>>],
                         TargetBase(FLOWS_DIR, DeptA, prompt_choice(STAGES, stage_choice),
                                    CategoryOf(call.dirs, DeptA,
                                               prompt_choice(STAGES, stage_choice),
                                               is_cat_specific, choice, <<"k">>)),
                         CreateFiles(StartOf(call),
                                     TaskRequests(TaskName,
                                                  sanitize_identifier(TaskName, <<"_", "t", "a", "s", "k">>),
                                                  DeptA,
                                                  prompt_choice(STAGES, stage_choice),
                                                  CategoryOf(call.dirs, DeptA,
                                                             prompt_choice(STAGES, stage_choice),
                                                             is_cat_specific, choice, <<"k">>)),
                                     1, failing))
    /\ UNCHANGED pipeline

\* add_category.py main, lines 374-398, for a run that was not cancelled
CategoryFiles(tree, requests, category_config_dir, failing) ==
    IF failing = 1 /\ ~Exists(tree, requests[1].path) THEN tree
    ELSE CreateFiles(create_directory(create_file(tree, requests[1].path, requests[1].content),
                                      category_config_dir),
                     requests, 2, failing)

\* add_category.py main, lines 346-355: the run goes on
Proceeds(tree, new_category_flow_dir, overwrite_confirm) ==
    Exists(tree, new_category_flow_dir) => lower(overwrite_confirm) = <<"y", "e", "s">>

\* add_category.py: main with the one department dept_a
AddCategory ==
    /\ call.fn = "generators"
    /\ Len(call.runs) < MaxGenRuns
    /\ \E stage_choice \in StageChoices, category_name \in CategoryNames,
          overwrite_confirm \in ProceedAnswers, action_verb \in ActionVerbs,
          failing \in Failings :
          /\ stage_choice <= Len(ExistingStages(call.dirs, DeptA))
          /\ call' = Ran("add_category",
                         [stage |-> stage_choice, is_cat_specific |-> TRUE, choice |-> 0,
                          name |-> category_name, proceed |-> overwrite_confirm,
                          verb |-> action_verb],
                         FLOWS_DIR \o <<DeptA, prompt_choice(ExistingStages(call.dirs, DeptA),
                                                             stage_choice),
                                        sanitize_category(category_name)>>,
                         IF Proceeds(StartOf(call),
                                     FLOWS_DIR \o <<DeptA,
                                                    prompt_choice(ExistingStages(call.dirs, DeptA),
                                                                  stage_choice),
                                                    sanitize_category(category_name)>>,
                                     overwrite_confirm)
                         THEN CategoryFiles(
                                  create_directory(
                                      StartOf(call),
                                      FLOWS_DIR \o <<DeptA,
                                                     prompt_choice(ExistingStages(call.dirs, DeptA),
                                                                   stage_choice),
                                                     sanitize_category(category_name)>>),
                                  CategoryRequests(
                                      IF action_verb = <<>>
                                      THEN default_action(prompt_choice(
                                               ExistingStages(call.dirs, DeptA), stage_choice))
                                      ELSE action_verb,
                                      category_name, DeptA,
                                      prompt_choice(ExistingStages(call.dirs, DeptA), stage_choice)),
                                  CONFIGS_DIR \o <<DeptA,
                                                   prompt_choice(ExistingStages(call.dirs, DeptA),
                                                                 stage_choice),
                                                   sanitize_category(category_name)>>,
                                  failing)
                         ELSE StartOf(call))
    /\ UNCHANGED pipeline

NextGen == AddTask \/ AddCategory

SpecGen == InitGen /\ [][NextGen]_vars

(***************************************************************************)
(* Vocabulary of the properties of the generated files.                    *)
(***************************************************************************)
GenRan == call.fn = "generators"

\* the files as run i found them and as it left them
FilesBefore(i) == call.runs[i].before

FilesAfter(i) == IF i < Len(call.runs) THEN call.runs[i + 1].before ELSE call.files

\* run i + 1 is run i again: the same script with the same answers
Rerun(i) ==
    /\ i + 1 \in DOMAIN call.runs
    /\ call.runs[i + 1].script = call.runs[i].script
    /\ call.runs[i + 1].inputs = call.runs[i].inputs

\* the files of f are in g as they are in f
Unmodified(f, g) == \A path \in DOMAIN f : path \in DOMAIN g /\ g[path] = f[path]

\* no run touches a file that was there, and a rerun leaves what the run
\* before it created as it was
NeverOverwrites ==
    /\ \A i \in DOMAIN call.runs : Unmodified(FilesBefore(i), FilesAfter(i))
    /\ \A i \in DOMAIN call.runs :
          Rerun(i) => \A path \in call.runs[i].created :
                         /\ path \in DOMAIN FilesAfter(i + 1)
                         /\ FilesAfter(i + 1)[path] = FilesAfter(i)[path]

\* C25 as stated: the generator scripts never overwrite an existing file, a
\* rerun of add_task or add_category with the same inputs leaves the files
\* of the first run unmodified, and the rerun of add_task reports each of
\* them as 'Exists ... (Skipping)'
C25_RerunReportsEveryFileExists ==
    GenRan =>
        /\ NeverOverwrites
        /\ \A i \in DOMAIN call.runs :
              Rerun(i) /\ call.runs[i].script = "add_task"
                 => call.runs[i].created \subseteq call.runs[i + 1].skipped

\* C25: the generator scripts never overwrite an existing file, a rerun of
\* add_task or add_category with the same inputs leaves the files of the
\* first run unmodified, and the rerun of add_task reports each of them as
\* 'Exists ... (Skipping)' when its answers select the directory the first
\* run selected
C25_RerunInSameDirectoryReportsExists ==
    GenRan =>
        /\ NeverOverwrites
        /\ \A i \in DOMAIN call.runs :
              /\ Rerun(i)
              /\ call.runs[i].script = "add_task"
              /\ call.runs[i + 1].target = call.runs[i].target
              => call.runs[i].created \subseteq call.runs[i + 1].skipped

\* a rerun of add_task for a category in the directory of the first run,
\* which created files there
C25_Witness ==
    /\ GenRan
    /\ Len(call.runs) = 2
    /\ Rerun(1)
    /\ call.runs[1].created # {}
    /\ call.runs[2].target = call.runs[1].target
    /\ call.runs[2].skipped # {}
    /\ call.runs[1].script = "add_task"
    /\ call.runs[1].inputs.is_cat_specific


(***************************************************************************)
(* C26: what the manifests on disk say of the stored file.                 *)
(***************************************************************************)
\* the path of the document a manifest file lies next to: lines 97-98 undone
DocumentOf(manifest_path) ==
    PathJoin(SubSeq(manifest_path, 1, Len(manifest_path) - 1),
             SubSeq(manifest_path[Len(manifest_path)], 1,
                    Len(manifest_path[Len(manifest_path)]) - Len(ManifestSuffix)))

\* the values a serialized manifest holds under the key
MembersOf(text, key) == {text[i][2] : i \in {j \in DOMAIN text : text[j][1] = key}}

\* C26: every file manifest that acquireFile has serialized to disk holds as
\* worker_storage_path the final CAS path of the stored file, where the file
\* is, and never the 'placeholder' the entry was constructed with
C26_SerializedManifestHasFinalPath ==
    \A manifest_path \in DOMAIN casManifests :
        casManifests[manifest_path] # <<>>
           => /\ MembersOf(casManifests[manifest_path], "worker_storage_path")
                    = {PathStr(DocumentOf(manifest_path))}
              /\ Placeholder \notin MembersOf(casManifests[manifest_path], "worker_storage_path")
              /\ DocumentOf(manifest_path) \in DOMAIN casDocs

\* both invocations have serialized a manifest, into one file or into two
C26_Witness ==
    /\ \A p \in Procs : HasReturned(p) /\ p \in Range(wrote)
    /\ \E manifest_path \in DOMAIN casManifests :
          /\ casManifests[manifest_path] # <<>>
          /\ \E p \in Procs : PathStr(loc[p].final_doc_path)
                                 \in MembersOf(casManifests[manifest_path], "worker_storage_path")


(***************************************************************************)
(* C27: the artifact step of the file pipeline.  The flow hands the result *)
(* of the download task to create_manifest_archive_task, which goes on to  *)
(* core_create_file_download_artifact.                                     *)
(***************************************************************************)
\* ingest_scheduled_file_downloads_flow, line 89: the flow calls the artifact
\* task for the result
FlowCallsArtifactTask(processing_result) ==
    processing_result # None /\ get(processing_result, "status") = "SUCCESS"

\* create_manifest_archive_task, lines 23-36: the task calls
\* core_create_file_download_artifact
TaskCreatesArtifact(processing_result) ==
    /\ processing_result # None
    /\ get(processing_result, "status") = "SUCCESS"
    /\ get(processing_result, "worker_manifest_path") # None
    /\ get(processing_result, "worker_manifest_path") # <<>>

\* the artifact step is invoked for what invocation p returned
ArtifactInvoked(p) ==
    HasReturned(p) /\ FlowCallsArtifactTask(meta[p]) /\ TaskCreatesArtifact(meta[p])

\* C27 (file pipeline): the artifact step is invoked for a resource only if
\* the manifest file of the resource was written to disk
C27_ArtifactOnlyAfterManifestWritten ==
    \A p \in Procs :
        ArtifactInvoked(p)
           => /\ loc[p].final_manifest_path \in DOMAIN casManifests
              /\ casManifests[loc[p].final_manifest_path] # <<>>


(***************************************************************************)
(* C28: the storage path of a result and the file it names.                *)
(***************************************************************************)
\* C28: whenever a returned result carries a worker_storage_path (status
\* SUCCESS or FAILED_STORAGE), a file exists at that path at the time of the
\* return
C28_ReportedStoragePathHasFile ==
    [][\A p \in Procs :
          (/\ pc[p] # "done"
           /\ pc'[p] = "done"
           /\ HasResult(p, "worker_storage_path")')
             => \E path \in DOMAIN casDocs' : PathStr(path) = meta'[p].worker_storage_path]_vars


(***************************************************************************)
(* C29: the hash a page manifest records and the directory it lies in.     *)
(***************************************************************************)
\* C29: the canonical_url_hash_sha256 recorded in a page manifest on disk is
\* the hash segment of the directory the manifest was written into, also
\* when the directory hash was computed by the fallback
C29_RecordedHashIsDirectoryHash ==
    call.fn = "save_scraped_page_manifest_locally" =>
        \A path \in DOMAIN casManifests :
            HasKey(casManifests[path], "canonical_url_hash_sha256")
               => DictGet(casManifests[path], "canonical_url_hash_sha256")
                     = path[Len(path) - 1]


(***************************************************************************)
(* C30: the stored files and the hash that names their directory.          *)
(***************************************************************************)
\* an invocation is copying into the file
Copying(path) ==
    \E q \in Procs : pc[q] = "copy" /\ loc[q].final_doc_path = path

\* an invocation gave up a copy into the file
Abandoned(path) ==
    \E q \in Procs :
        /\ HasReturned(q)
        /\ fault[q] = "move"
        /\ "copy" \in StepsOf(q)
        /\ loc[q].final_doc_path = path

\* the file is stored and every copy into it that was begun has ended
Complete(path) ==
    path \in DOMAIN casDocs /\ ~Copying(path) /\ ~Abandoned(path)

\* the hash segment of casRoot/{dataSource}/{h}/{filename}
HashSegment(path) == path[Len(path) - 1]

\* C30: every complete stored file under casRoot/{dataSource}/{h}/ has
\* content whose SHA-256 is h, whatever the interleaving; the chunked hash of
\* the staged file is the hash of its bytes at once, and the staged bytes
\* stay what was hashed until they are placed
C30_StoredFileHashesToItsDirectory ==
    /\ \A path \in DOMAIN casDocs :
          Complete(path)
             => generate_sha256_hash_from_bytes(casDocs[path]) = HashSegment(path)
    /\ \A p \in Procs :
          (/\ loc[p] # <<>>
           /\ "content_hash" \in DOMAIN loc[p]
           /\ tmp[p].exists)
             => loc[p].content_hash = generate_sha256_hash_from_bytes(tmp[p].data)

\* two interleaved invocations copied the same bytes of two chunks into one
\* file across filesystems, and both returned SUCCESS
C30_Witness ==
    /\ ~sameFs
    /\ \A p \in Procs : HasReturned(p) /\ StatusOf(p) = "SUCCESS"
    /\ \A p, q \in Procs :
          /\ q \notin preds[p]
          /\ loc[p].final_doc_path = loc[q].final_doc_path
          /\ Complete(loc[p].final_doc_path)
          /\ Len(casDocs[loc[p].final_doc_path]) >= 2

====
